---- MODULE Spec2Model ----
(***************************************************************************)
(* A model of the embedding-and-deduplication core of tb-email-collator:   *)
(* EmbeddingCache and RateLimiter (src/modules/utils.js), EmbeddingService *)
(* (src/modules/embeddings.js) and Deduplicator                            *)
(* (src/modules/deduplication.js).                                         *)
(*                                                                         *)
(* Three specifications share the definitions:                             *)
(*   SpecCache     one EmbeddingCache under arbitrary get/set calls, each  *)
(*                 run to completion;                                       *)
(*   SpecThrottle  one RateLimiter with several throttle() calls in flight; *)
(*   Spec          one EmbeddingService running one batch                   *)
(*                 (generateEmbeddingsForMessages) followed by             *)
(*                 Deduplicator.deduplicate, as EmailCollator.collate does. *)
(***************************************************************************)
EXTENDS Integers, Sequences, FiniteSets, TLC

VARIABLES
    \* EmbeddingCache
    cache,              \* this.cache: a Map, as the sequence of its entries in insertion order
    maxSize,            \* this.maxSize
    lastOp,             \* (history) the last get/set call made on the cache and what it returned
    insertedAt,         \* (history) for each key present, the number of the set call that inserted it; 0 if absent
    nSets,              \* (history) the number of set calls made
    \* RateLimiter
    requestTimestamps,  \* this.requestTimestamps
    maxRequests,        \* this.maxRequests
    timeWindow,         \* this.timeWindow
    now,                \* the value Date.now() returns
    callers,            \* the throttle() calls in flight: for each caller its position and timer
    granted,            \* (history) the times of all admissions granted, in order
    \* EmbeddingService, Deduplicator and the batch in progress
    settings,           \* the settings the service was constructed with: provider and its config
    threshold,          \* Deduplicator.threshold, a fraction [num, den]
    messages,           \* the input of generateEmbeddingsForMessages
    count,              \* its local count: the messages processed so far
    pc,                 \* where the batch is
    wakeAt,             \* the due time of the timer the batch is suspended on
    embedding,          \* getEmbedding's local embedding, between the provider call and the store
    messagesWithEmbeddings, \* the result under construction
    progressLog,        \* the calls made to onProgress, in order
    uniqueMessages,     \* the result of deduplicate
    providerCalls,      \* (history) the texts sent to the provider over the network
    outcome,            \* (history) for each processed message how its getEmbedding call ended
    request,            \* (history) the getEmbedding call in progress, as it started
    \* Deduplicator.deduplicate, step by step
    dMessages,          \* its argument messages
    dIsDuplicate,       \* its local isDuplicate
    dI,                 \* its loop variable i (from 1)
    dJ,                 \* its loop variable j
    dPc,                \* where the call is: "outer", "inner", "collect", "done"
    dUnique,            \* its result uniqueMessages
    dCompared,          \* (history) the pairs compared so far, in order
    \* one call of Deduplicator.cosineSimilarity
    cosVecA,            \* its argument vecA
    cosVecB,            \* its argument vecB
    cosCalled,          \* whether it was called
    cosReturned,        \* what it returned
    \* one call of handleCollation(data) (background.js)
    hData,              \* its argument: which fields are there, and the output method
    hPc,                \* where the call is
    hEvents,            \* the statuses sent to the popup as 'progress' messages, in order
    hFound,             \* collate: messages.length
    hExtracted,         \* extractAllMessageContents: processedCount
    hToEmbed,           \* the number of contents with a body of more than 50 characters
    hEmbedded,          \* generateEmbeddingsForMessages: count
    \* two calls of handleCollation and the objects they construct
    rRuns,              \* per run: where it is, and its service's cache and rateLimiter
    rCaches,            \* the EmbeddingCache objects constructed so far: their cache field
    rLimiters,          \* the RateLimiter objects constructed so far: their requestTimestamps
    rNow,               \* Date.now()
    rActor,             \* (history) the run that took the last step
    \* more history of the callers of throttle(), and cache.set calls in flight
    tSeen,              \* (history) per caller: the admissions granted when it last evaluated
    setters,            \* per call of set in flight: where it is, and its arguments
    cMessages,          \* collate: the messages found, with what reading each one gives
    cPc,                \* collate: where the run is
    cI,                 \* collate: the index of the loop the run is in
    messageContents,    \* collate: the contents extracted so far
    cWithEmbeddings,    \* collate: the entries generateEmbeddingsForMessages has built
    cUnique,            \* collate: what deduplicate returned
    cReport,            \* collate: the messages handed to generateHtml, in order
    lRequests           \* the requests the runtime delivered to the onMessage listener

cacheVars == <<cache, maxSize, lastOp, insertedAt, nSets>>
throttleVars == <<requestTimestamps, maxRequests, timeWindow, now, callers, granted>>
batchVars == <<settings, threshold, messages, count, pc, wakeAt, embedding,
               messagesWithEmbeddings, progressLog, uniqueMessages,
               providerCalls, outcome, request>>
dedupVars == <<dMessages, dIsDuplicate, dI, dJ, dPc, dUnique, dCompared>>
\* The variables added for the specifications other than the first three.
cosineVars == <<cosVecA, cosVecB, cosCalled, cosReturned>>
collateVars == <<hData, hPc, hEvents, hFound, hExtracted, hToEmbed, hEmbedded>>
runVars == <<rRuns, rCaches, rLimiters, rNow, rActor>>
restVars == <<tSeen, setters>>
pipeVars == <<cMessages, cPc, cI, messageContents, cWithEmbeddings, cUnique, cReport>>
lastVars == <<pipeVars, lRequests>>
moreVars == <<dedupVars, cosineVars, collateVars, runVars, restVars, lastVars>>
vars == <<cacheVars, throttleVars, batchVars, moreVars>>

(***************************************************************************)
(* Bounds of the model.                                                    *)
(***************************************************************************)
MaxCacheSize == 2       \* maxSize is drawn from 1..MaxCacheSize
MaxCacheOps == 5        \* set calls made on the cache in SpecCache
MaxRequestsBound == 2   \* maxRequests is drawn from 1..MaxRequestsBound
MaxWindow == 2          \* timeWindow is drawn from 1..MaxWindow
MaxTime == 3            \* the clock stops here
NumCallers == 2         \* concurrent callers of throttle() in SpecThrottle
MaxCalls == 3           \* calls of throttle() made in SpecThrottleFair
NumSetters == 2         \* calls of set in flight at once in SpecSets
MaxDocs == 3            \* messages in a batch
MaxFound == 3           \* messages a collation finds

\* The model's clock counts abstract units; the buffer added to every wait
\* (100 ms in the source) is one unit.
Buffer == 1

(***************************************************************************)
(* Values.                                                                 *)
(***************************************************************************)
\* JavaScript values: undefined, null and arrays of numbers.
Undefined == [type |-> "undefined"]
Null == [type |-> "null"]
Array(items) == [type |-> "array", items |-> items]

\* Body texts, as sequences of characters.
Texts == {<<1>>, <<2>>, <<1, 2>>}
\* Embedding vectors a provider may return.
Vectors == {Array(<<1, 0>>), Array(<<0, 1>>)}

\* JavaScript truthiness of the values the model holds: undefined and null
\* are falsy, every array (the empty one included) is truthy.
Truthy(v) == v # Undefined /\ v # Null

(***************************************************************************)
(* Map: the JavaScript Map, a sequence of [key, value] entries kept in     *)
(* insertion order.                                                        *)
(***************************************************************************)
MapKeys(m) == {m[i].key : i \in 1..Len(m)}

MapHas(m, k) == k \in MapKeys(m)

MapGet(m, k) ==
    IF MapHas(m, k)
    THEN m[CHOOSE i \in 1..Len(m) : m[i].key = k].value
    ELSE Undefined

\* Map.prototype.set: an existing key keeps its position, a new key goes last.
MapSet(m, k, v) ==
    IF MapHas(m, k)
    THEN [i \in 1..Len(m) |-> IF m[i].key = k THEN [key |-> k, value |-> v] ELSE m[i]]
    ELSE Append(m, [key |-> k, value |-> v])

MapDelete(m, k) == SelectSeq(m, LAMBDA e : e.key # k)

\* this.cache.keys().next().value
FirstKey(m) == IF Len(m) = 0 THEN Undefined ELSE m[1].key

(***************************************************************************)
(* EmbeddingCache (utils.js 86-112).                                       *)
(***************************************************************************)
\* A hash that keeps only the length of the text (a colliding key).
getKeyByLength(text) == [sha1 |-> Len(text)]
\* The SHA-1 digest of the text in hex: distinct texts get distinct keys.
getKey(text) == [sha1 |-> text]

\* A get that refreshes the recency of the entry it reads (an LRU cache).
GetAndRefresh(c, text) ==
    [cache |-> IF MapHas(c, getKey(text))
               THEN MapSet(MapDelete(c, getKey(text)), getKey(text), MapGet(c, getKey(text)))
               ELSE c,
     value |-> MapGet(c, getKey(text))]
\* A get that finds nothing.
GetMisses(c, text) == [cache |-> c, value |-> Undefined]
\* get: the value it returns and the map it leaves (Map.prototype.get changes nothing).
EmbeddingCache_get(c, text) == [cache |-> c, value |-> MapGet(c, getKey(text))]

EvictWhenOver(c, max) ==
    IF Len(c) > max THEN MapDelete(c, FirstKey(c)) ELSE c
\* The first half of set, before its await: the capacity check and eviction.
Evict(c, max) ==
    IF Len(c) >= max THEN MapDelete(c, FirstKey(c)) ELSE c

\* The second half of set, after its await: the insertion.
Insert(c, text, vector) == MapSet(c, getKey(text), vector)

EmbeddingCache_set(c, max, text, vector) ==
    Insert(Evict(c, max), text, vector)

Keys == {getKey(t) : t \in Texts}

\* lastOp before any call: present tells whether the key was in the map when
\* the call started, evicted holds the keys its capacity check removed.
NoOp == [op |-> "new", text |-> <<>>, value |-> Undefined, present |-> FALSE, evicted |-> {}]

\* The values a caller may store: a vector, or the undefined of a malformed payload.
Storable == Vectors \cup {Undefined}

CacheInit ==
    /\ cache = <<>>
    /\ maxSize \in 1..MaxCacheSize
    /\ lastOp = NoOp
    /\ insertedAt = [k \in Keys |-> 0]
    /\ nSets = 0

\* await cache.get(text)
CacheGet(text) ==
    /\ cache' = EmbeddingCache_get(cache, text).cache
    /\ lastOp' = [op |-> "get", text |-> text, value |-> EmbeddingCache_get(cache, text).value,
                  present |-> MapHas(cache, getKey(text)), evicted |-> {}]
    /\ UNCHANGED <<maxSize, insertedAt, nSets>>

\* await cache.set(text, embedding), run to completion
CacheSet(text, vector) ==
    /\ nSets < MaxCacheOps
    /\ LET mid == Evict(cache, maxSize)
           new == EmbeddingCache_set(cache, maxSize, text, vector)
       IN /\ cache' = new
          /\ insertedAt' = [k \in Keys |->
                IF ~MapHas(new, k) THEN 0
                ELSE IF MapHas(mid, k) THEN insertedAt[k]
                ELSE nSets + 1]
    /\ nSets' = nSets + 1
    /\ lastOp' = [op |-> "set", text |-> text, value |-> vector,
                  present |-> MapHas(cache, getKey(text)),
                  evicted |-> MapKeys(cache) \ MapKeys(Evict(cache, maxSize))]
    /\ UNCHANGED maxSize

(***************************************************************************)
(* RateLimiter (utils.js 60-81).                                           *)
(***************************************************************************)
\* A filter that keeps a timestamp as old as the window is long.
FilterInclusive(ts, t, window) == SelectSeq(ts, LAMBDA x : t - x <= window)
\* requestTimestamps.filter(t => now - t < this.timeWindow)
Filter(ts, t, window) == SelectSeq(ts, LAMBDA x : t - x < window)

\* An evaluation that admits while the window already holds maxRequests.
ThrottleOffByOne(ts, t, max, window) ==
    LET kept == Filter(ts, t, window) IN
    IF Len(kept) > max
    THEN [requestTimestamps |-> kept, admitted |-> FALSE,
          waitTime |-> window - (t - kept[1]) + Buffer]
    ELSE [requestTimestamps |-> Append(kept, t), admitted |-> TRUE, waitTime |-> 0]
\* An evaluation that waits too short for the oldest timestamp to leave the window.
ThrottleShortWait(ts, t, max, window) ==
    LET kept == Filter(ts, t, window) IN
    IF Len(kept) >= max
    THEN [requestTimestamps |-> kept, admitted |-> FALSE,
          waitTime |-> window - (t - kept[1]) - Buffer]
    ELSE [requestTimestamps |-> Append(kept, t), admitted |-> TRUE, waitTime |-> 0]
\* One evaluation of throttle(), from Date.now() to the push or to the
\* setTimeout: JavaScript runs it without interruption.
RateLimiter_throttle(ts, t, max, window) ==
    LET kept == Filter(ts, t, window) IN
    IF Len(kept) >= max
    THEN [requestTimestamps |-> kept, admitted |-> FALSE,
          waitTime |-> window - (t - kept[1]) + Buffer]
    ELSE [requestTimestamps |-> Append(kept, t), admitted |-> TRUE, waitTime |-> 0]

\* A waiter that takes its admission when its timer fires, without a new check.
AdmitAfterWait(ts, t, max, window) ==
    [requestTimestamps |-> Append(Filter(ts, t, window), t), admitted |-> TRUE, waitTime |-> 0]
\* `return this.throttle()` after the wait: the evaluation starts again.
Retry(ts, t, max, window) == RateLimiter_throttle(ts, t, max, window)

Callers == 1..NumCallers

ThrottleInit ==
    /\ requestTimestamps = <<>>
    /\ maxRequests \in 1..MaxRequestsBound
    /\ timeWindow \in 1..MaxWindow
    /\ now = 0
    /\ callers = [c \in Callers |-> [pc |-> "ready", wakeAt |-> 0, suspended |-> 0]]
    /\ granted = <<>>

\* The outcome r of an evaluation made for caller c; suspended counts the
\* suspensions of the caller's current (or last finished) call.
Evaluated(c, r, suspendedSoFar) ==
    /\ requestTimestamps' = r.requestTimestamps
    /\ IF r.admitted
       THEN /\ granted' = Append(granted, now)
            /\ callers' = [callers EXCEPT ![c] =
                    [pc |-> "ready", wakeAt |-> 0, suspended |-> suspendedSoFar]]
       ELSE /\ granted' = granted
            /\ callers' = [callers EXCEPT ![c] =
                    [pc |-> "waiting", wakeAt |-> now + r.waitTime, suspended |-> suspendedSoFar + 1]]
    /\ UNCHANGED <<maxRequests, timeWindow, now>>

\* A caller calls throttle().
Throttle(c) ==
    /\ callers[c].pc = "ready"
    /\ Evaluated(c, RateLimiter_throttle(requestTimestamps, now, maxRequests, timeWindow), 0)

\* The timer of a suspended caller fires (at its due time or later).
Wake(c) ==
    /\ callers[c].pc = "waiting"
    /\ now >= callers[c].wakeAt
    /\ Evaluated(c, Retry(requestTimestamps, now, maxRequests, timeWindow), callers[c].suspended)

\* Time passes.
Tick ==
    /\ now < MaxTime
    /\ now' = now + 1
    /\ UNCHANGED <<requestTimestamps, maxRequests, timeWindow, callers, granted>>

(***************************************************************************)
(* Deduplicator (deduplication.js).                                        *)
(***************************************************************************)
\* similarityThreshold = 0.95, as the fraction 19/20
DefaultThreshold == [num |-> 19, den |-> 20]

RECURSIVE Dot(_, _)
\* The sum of a[i] * b[i] over the indices of a.
Dot(a, b) ==
    IF Len(a) = 0 THEN 0
    ELSE a[Len(a)] * b[Len(a)] + Dot(SubSeq(a, 1, Len(a) - 1), b)

\* cosineSimilarity, as the three sums it divides: the similarity is
\* dot / (sqrt(normA) * sqrt(normB)); the 0 it returns early is 0 / (1 * 1).
Zero == [dot |-> 0, normA |-> 1, normB |-> 1]

\* A similarity that divides without looking at the norms.
cosineSimilarityUnguarded(vecA, vecB) ==
    IF ~Truthy(vecA) \/ ~Truthy(vecB) THEN Zero
    ELSE IF Len(vecA.items) # Len(vecB.items) THEN Zero
    ELSE [dot |-> Dot(vecA.items, vecB.items),
          normA |-> Dot(vecA.items, vecA.items),
          normB |-> Dot(vecB.items, vecB.items)]
cosineSimilarity(vecA, vecB) ==
    IF ~Truthy(vecA) \/ ~Truthy(vecB) THEN Zero
    ELSE IF Len(vecA.items) # Len(vecB.items) THEN Zero
    ELSE LET normA == Dot(vecA.items, vecA.items)
             normB == Dot(vecB.items, vecB.items)
         IN IF normA = 0 \/ normB = 0 THEN Zero
            ELSE [dot |-> Dot(vecA.items, vecB.items), normA |-> normA, normB |-> normB]

\* similarity > threshold, in exact arithmetic: with s = sqrt(normA * normB) > 0
\* and den > 0, dot / s > num / den is den * dot > num * s.
Exceeds(sim, th) ==
    LET l == th.den * sim.dot
        l2 == l * l
        r2 == th.num * th.num * sim.normA * sim.normB
    IN IF th.num >= 0 THEN l > 0 /\ l2 > r2
       ELSE l >= 0 \/ l2 < r2

\* !messages[i].embedding
NoEmbedding(m) == ~Truthy(m.embedding)

\* A comparison that marks the longer of two similar messages.
CompareMarksLonger(msgs, th, isDuplicate, i, j) ==
    IF Exceeds(cosineSimilarity(msgs[i].embedding, msgs[j].embedding), th)
    THEN IF Len(msgs[i].body) < Len(msgs[j].body)
         THEN [isDuplicate |-> [isDuplicate EXCEPT ![j] = TRUE], stop |-> FALSE]
         ELSE [isDuplicate |-> [isDuplicate EXCEPT ![i] = TRUE], stop |-> TRUE]
    ELSE [isDuplicate |-> isDuplicate, stop |-> FALSE]
\* A comparison that on equal lengths keeps the first message and marks the second.
CompareTieMarksSecond(msgs, th, isDuplicate, i, j) ==
    IF Exceeds(cosineSimilarity(msgs[i].embedding, msgs[j].embedding), th)
    THEN IF Len(msgs[i].body) >= Len(msgs[j].body)
         THEN [isDuplicate |-> [isDuplicate EXCEPT ![j] = TRUE], stop |-> FALSE]
         ELSE [isDuplicate |-> [isDuplicate EXCEPT ![i] = TRUE], stop |-> TRUE]
    ELSE [isDuplicate |-> isDuplicate, stop |-> FALSE]
\* A comparison that leaves the loop over j after any similar pair.
CompareStopsAlways(msgs, th, isDuplicate, i, j) ==
    IF Exceeds(cosineSimilarity(msgs[i].embedding, msgs[j].embedding), th)
    THEN IF Len(msgs[i].body) > Len(msgs[j].body)
         THEN [isDuplicate |-> [isDuplicate EXCEPT ![j] = TRUE], stop |-> TRUE]
         ELSE [isDuplicate |-> [isDuplicate EXCEPT ![i] = TRUE], stop |-> TRUE]
    ELSE [isDuplicate |-> isDuplicate, stop |-> FALSE]
\* A comparison that marks the first message of any similar pair.
CompareMarksFirst(msgs, th, isDuplicate, i, j) ==
    IF Exceeds(cosineSimilarity(msgs[i].embedding, msgs[j].embedding), th)
    THEN [isDuplicate |-> [isDuplicate EXCEPT ![i] = TRUE], stop |-> TRUE]
    ELSE [isDuplicate |-> isDuplicate, stop |-> FALSE]
\* The comparison of messages i and j (lines 31-42): the marks it leaves, and
\* whether it breaks out of the loop over j.
Compare(msgs, th, isDuplicate, i, j) ==
    IF Exceeds(cosineSimilarity(msgs[i].embedding, msgs[j].embedding), th)
    THEN IF Len(msgs[i].body) > Len(msgs[j].body)
         THEN [isDuplicate |-> [isDuplicate EXCEPT ![j] = TRUE], stop |-> FALSE]
         ELSE [isDuplicate |-> [isDuplicate EXCEPT ![i] = TRUE], stop |-> TRUE]
    ELSE [isDuplicate |-> isDuplicate, stop |-> FALSE]

RECURSIVE Inner(_, _, _, _, _)
\* The loop over j for one i (lines 28-43), from j on; returns isDuplicate.
Inner(msgs, th, isDuplicate, i, j) ==
    IF j > Len(msgs) THEN isDuplicate
    ELSE IF isDuplicate[j] \/ NoEmbedding(msgs[j]) THEN Inner(msgs, th, isDuplicate, i, j + 1)
    ELSE LET c == Compare(msgs, th, isDuplicate, i, j)
         IN IF c.stop THEN c.isDuplicate ELSE Inner(msgs, th, c.isDuplicate, i, j + 1)

RECURSIVE Outer(_, _, _, _)
\* The loop over i (lines 25-44), from i on; returns isDuplicate.
Outer(msgs, th, isDuplicate, i) ==
    IF i > Len(msgs) THEN isDuplicate
    ELSE IF isDuplicate[i] \/ NoEmbedding(msgs[i]) THEN Outer(msgs, th, isDuplicate, i + 1)
    ELSE Outer(msgs, th, Inner(msgs, th, isDuplicate, i, i + 1), i + 1)

RECURSIVE Pick(_, _, _)
\* The messages of msgs from index i on whose index keep holds of, in order.
Pick(msgs, keep, i) ==
    IF i > Len(msgs) THEN <<>>
    ELSE (IF keep[i] THEN <<msgs[i]>> ELSE <<>>) \o Pick(msgs, keep, i + 1)

\* An output that keeps only the unmarked messages that carry an embedding.
UnmarkedWithEmbedding(msgs, isDuplicate) ==
    Pick(msgs, [i \in 1..Len(msgs) |-> ~isDuplicate[i] /\ ~NoEmbedding(msgs[i])], 1)
\* An output that lists the unmarked messages from the last to the first.
UnmarkedNewestFirst(msgs, isDuplicate) ==
    LET u == Pick(msgs, [i \in 1..Len(msgs) |-> ~isDuplicate[i]], 1)
    IN [k \in 1..Len(u) |-> u[Len(u) + 1 - k]]
\* The last loop (lines 46-50): the messages not marked, in order.
Unmarked(msgs, isDuplicate) ==
    Pick(msgs, [i \in 1..Len(msgs) |-> ~isDuplicate[i]], 1)

deduplicate(msgs, th) ==
    Unmarked(msgs, Outer(msgs, th, [i \in 1..Len(msgs) |-> FALSE], 1))

\* Messages given to deduplicate: the k-th has id k, a body of one or two
\* characters, and no embedding, an empty one, or one of three vectors of
\* which the middle one is similar (at 0.95) to both others, which are not
\* similar to each other.
DedupBodies == {<<1>>, <<1, 2>>}
DedupEmbeddings ==
    {Null, Array(<<>>), Array(<<10, 0>>), Array(<<10, 3>>), Array(<<10, 6>>)}
DedupInputs ==
    UNION {{[k \in 1..n |-> [id |-> k, body |-> b[k], embedding |-> e[k]]] :
                b \in [1..n -> DedupBodies], e \in [1..n -> DedupEmbeddings]} : n \in 0..MaxDocs}
\* Thresholds a Deduplicator is constructed with: the default, and a negative one.
Thresholds == {DefaultThreshold, [num |-> -1, den |-> 2]}

\* new Deduplicator(threshold).deduplicate(messages), at the entry of the loop over i.
DedupInit ==
    /\ threshold \in Thresholds
    /\ dMessages \in DedupInputs
    /\ dIsDuplicate = [k \in 1..Len(dMessages) |-> FALSE]
    /\ dI = 1
    /\ dJ = 0
    /\ dPc = "outer"
    /\ dUnique = <<>>
    /\ dCompared = <<>>

\* A loop over i that starts its loop over j one message too far.
OuterStepSkipsNext ==
    /\ dPc = "outer"
    /\ IF dI > Len(dMessages)
       THEN dPc' = "collect" /\ UNCHANGED <<dI, dJ>>
       ELSE IF dIsDuplicate[dI] \/ NoEmbedding(dMessages[dI])
       THEN dI' = dI + 1 /\ UNCHANGED <<dPc, dJ>>
       ELSE dJ' = dI + 2 /\ dPc' = "inner" /\ UNCHANGED dI
    /\ UNCHANGED <<dMessages, dIsDuplicate, dUnique, dCompared>>
\* One turn of the loop over i (lines 25-28): its end, a skipped i, or the
\* entry of the loop over j.
OuterStep ==
    /\ dPc = "outer"
    /\ IF dI > Len(dMessages)
       THEN dPc' = "collect" /\ UNCHANGED <<dI, dJ>>
       ELSE IF dIsDuplicate[dI] \/ NoEmbedding(dMessages[dI])
       THEN dI' = dI + 1 /\ UNCHANGED <<dPc, dJ>>
       ELSE dJ' = dI + 1 /\ dPc' = "inner" /\ UNCHANGED dI
    /\ UNCHANGED <<dMessages, dIsDuplicate, dUnique, dCompared>>

\* One turn of the loop over j (lines 28-43) that compares nothing: its end, or a skipped j.
InnerSkip ==
    /\ dPc = "inner"
    /\ IF dJ > Len(dMessages)
       THEN dI' = dI + 1 /\ dPc' = "outer" /\ UNCHANGED dJ
       ELSE /\ dIsDuplicate[dJ] \/ NoEmbedding(dMessages[dJ])
            /\ dJ' = dJ + 1
            /\ UNCHANGED <<dI, dPc>>
    /\ UNCHANGED <<dMessages, dIsDuplicate, dUnique, dCompared>>

\* A comparison step that marks both messages of a similar pair.
InnerCompareMarksBoth ==
    /\ dPc = "inner"
    /\ dJ <= Len(dMessages)
    /\ ~(dIsDuplicate[dJ] \/ NoEmbedding(dMessages[dJ]))
    /\ LET c == Compare(dMessages, threshold, dIsDuplicate, dI, dJ)
       IN /\ dIsDuplicate' = IF c.isDuplicate = dIsDuplicate THEN dIsDuplicate
                             ELSE [dIsDuplicate EXCEPT ![dI] = TRUE, ![dJ] = TRUE]
          /\ IF c.stop
             THEN dI' = dI + 1 /\ dPc' = "outer" /\ UNCHANGED dJ
             ELSE dJ' = dJ + 1 /\ UNCHANGED <<dI, dPc>>
    /\ dCompared' = Append(dCompared, <<dI, dJ>>)
    /\ UNCHANGED <<dMessages, dUnique>>
\* One turn of the loop over j that compares i and j (lines 31-42).
InnerCompare ==
    /\ dPc = "inner"
    /\ dJ <= Len(dMessages)
    /\ ~(dIsDuplicate[dJ] \/ NoEmbedding(dMessages[dJ]))
    /\ LET c == Compare(dMessages, threshold, dIsDuplicate, dI, dJ)
       IN /\ dIsDuplicate' = c.isDuplicate
          /\ IF c.stop
             THEN dI' = dI + 1 /\ dPc' = "outer" /\ UNCHANGED dJ
             ELSE dJ' = dJ + 1 /\ UNCHANGED <<dI, dPc>>
    /\ dCompared' = Append(dCompared, <<dI, dJ>>)
    /\ UNCHANGED <<dMessages, dUnique>>

\* The last loop and the return (lines 46-52).
Collect ==
    /\ dPc = "collect"
    /\ dUnique' = Unmarked(dMessages, dIsDuplicate)
    /\ dPc' = "done"
    /\ UNCHANGED <<dMessages, dIsDuplicate, dI, dJ, dCompared>>

\* The deduplication variables of a model in which deduplicate is not called step by step.
DedupIdle ==
    /\ dMessages = <<>>
    /\ dIsDuplicate = <<>>
    /\ dI = 0
    /\ dJ = 0
    /\ dPc = "idle"
    /\ dUnique = <<>>
    /\ dCompared = <<>>

\* Arguments given to cosineSimilarity: missing ones, the empty vector, zero
\* vectors, and vectors of one and two components.
CosineInputs ==
    {Null, Undefined, Array(<<>>), Array(<<0>>), Array(<<2>>), Array(<<0, 0>>),
     Array(<<1, 0>>), Array(<<0, 1>>), Array(<<1, 1>>), Array(<<-1, 2>>), Array(<<3, 4>>)}

\* cosineSimilarity not called yet.
CosineIdle ==
    /\ cosVecA = Undefined
    /\ cosVecB = Undefined
    /\ cosCalled = FALSE
    /\ cosReturned = Zero

\* A call cosineSimilarity(vecA, vecB) and its return.
CosineCall(vecA, vecB) ==
    /\ cosVecA' = vecA
    /\ cosVecB' = vecB
    /\ cosCalled' = TRUE
    /\ cosReturned' = cosineSimilarity(vecA, vecB)

(***************************************************************************)
(* handleCollation (background.js 133-157) and EmailCollator.collate       *)
(* (embeddings.js 146-187), with the ProgressReporter (utils.js 11-55)     *)
(* whose only listener forwards each status to the popup.                  *)
(***************************************************************************)
\* Math.round(x / y) for x >= 0 and y > 0.
Round(x, y) == (2 * x + y) \div (2 * y)

\* reportProgress(current, 100, message): the status the listener forwards.
ProgressStatus(current) == [type |-> "progress", percentage |-> Round(current * 100, 100)]
\* reportComplete(message)
CompleteStatus == [type |-> "complete", percentage |-> 100]
\* reportError(error), and the status handleCollation sends from its catch.
ErrorStatus == [type |-> "error", percentage |-> 0]

\* The arguments of handleCollation: data.settings and data.senders may be
\* missing; data.outputMethod is 'tab' or something else.
CollateData == [settings : BOOLEAN, senders : BOOLEAN, outputMethod : {"tab", "file"}]

CollateInit ==
    /\ hData \in CollateData
    /\ hPc = "start"
    /\ hEvents = <<>>
    /\ hFound = 0
    /\ hExtracted = 0
    /\ hToEmbed = 0
    /\ hEmbedded = 0

\* handleCollation, lines 136-141: new EmailCollator(data.settings), which
\* throws on missing settings (settings.provider), and addListener.
Construct ==
    /\ hPc = "start"
    /\ IF hData.settings
       THEN hPc' = "collate" /\ UNCHANGED hEvents
       ELSE hPc' = "rejected" /\ hEvents' = Append(hEvents, ErrorStatus)
    /\ UNCHANGED <<hData, hFound, hExtracted, hToEmbed, hEmbedded>>

\* collate, line 149: the first report; senders.length throws on missing
\* senders, the catch of collate reports the error and rethrows, and the
\* catch of handleCollation sends an error status and rethrows.
CollateStart ==
    /\ hPc = "collate"
    /\ IF hData.senders
       THEN hPc' = "fetch" /\ hEvents' = Append(hEvents, ProgressStatus(0))
       ELSE hPc' = "rejected" /\ hEvents' = hEvents \o <<ErrorStatus, ErrorStatus>>
    /\ UNCHANGED <<hData, hFound, hExtracted, hToEmbed, hEmbedded>>

\* collate, lines 150-158: n messages fetched; none ends collate with a
\* report of 100 and the 'No Messages Found' page.
Fetch(n) ==
    /\ hPc = "fetch"
    /\ hFound' = n
    /\ IF n = 0
       THEN hPc' = "deliver" /\ hEvents' = Append(hEvents, ProgressStatus(100))
       ELSE hPc' = "extract" /\ hEvents' = Append(hEvents, ProgressStatus(10))
    /\ UNCHANGED <<hData, hExtracted, hToEmbed, hEmbedded>>

\* extractAllMessageContents, lines 228-236: one message; embeddable says
\* that its content was extracted with a body of more than 50 characters.
Extract(embeddable) ==
    /\ hPc = "extract"
    /\ hExtracted < hFound
    /\ hExtracted' = hExtracted + 1
    /\ hToEmbed' = IF embeddable THEN hToEmbed + 1 ELSE hToEmbed
    /\ hEvents' = IF (hExtracted + 1) % 10 = 0 \/ hExtracted + 1 = hFound
                  THEN Append(hEvents, ProgressStatus(10 + Round((hExtracted + 1) * 30, hFound)))
                  ELSE hEvents
    /\ UNCHANGED <<hData, hPc, hFound, hEmbedded>>

\* collate, line 162: the report before the embeddings.
Extracted ==
    /\ hPc = "extract"
    /\ hExtracted = hFound
    /\ hPc' = "embed"
    /\ hEvents' = Append(hEvents, ProgressStatus(40))
    /\ UNCHANGED <<hData, hFound, hExtracted, hToEmbed, hEmbedded>>

\* generateEmbeddingsForMessages: one message, embedded or not, and the
\* onProgress callback of collate (line 165).
EmbedOne ==
    /\ hPc = "embed"
    /\ hEmbedded < hToEmbed
    /\ hEmbedded' = hEmbedded + 1
    /\ hEvents' = Append(hEvents, ProgressStatus(40 + Round((hEmbedded + 1) * 30, hToEmbed)))
    /\ UNCHANGED <<hData, hPc, hFound, hExtracted, hToEmbed>>

\* collate, lines 169-180: deduplication, the page, the last reports.
Finish ==
    /\ hPc = "embed"
    /\ hEmbedded = hToEmbed
    /\ hPc' = "deliver"
    /\ hEvents' = hEvents \o <<ProgressStatus(70), ProgressStatus(90), ProgressStatus(100),
                                CompleteStatus>>
    /\ UNCHANGED <<hData, hFound, hExtracted, hToEmbed, hEmbedded>>

\* handleCollation, lines 145-156: openResultInBrowser or exportToFile,
\* which fulfils or rejects; a rejection lands in the catch.
Deliver(ok) ==
    /\ hPc = "deliver"
    /\ IF ok
       THEN hPc' = "resolved" /\ UNCHANGED hEvents
       ELSE hPc' = "rejected" /\ hEvents' = Append(hEvents, ErrorStatus)
    /\ UNCHANGED <<hData, hFound, hExtracted, hToEmbed, hEmbedded>>

\* handleCollation not called.
CollateIdle ==
    /\ hData = [settings |-> TRUE, senders |-> TRUE, outputMethod |-> "tab"]
    /\ hPc = "idle"
    /\ hEvents = <<>>
    /\ hFound = 0
    /\ hExtracted = 0
    /\ hToEmbed = 0
    /\ hEmbedded = 0

(***************************************************************************)
(* Two runs of handleCollation: each constructs an EmailCollator, whose    *)
(* EmbeddingService constructs a cache and a rate limiter (embeddings.js   *)
(* 9-17, 133-138; background.js 136).                                      *)
(***************************************************************************)
Runs == {"first", "second"}

\* The texts and the one vector the runs put in their caches.
RunTexts == {<<1>>, <<2>>}
RunVector == Array(<<1, 0>>)

\* A constructor that hands out the object constructed first.
Singleton(objects) == 1
\* new: the object constructed is none of those constructed before.
New(objects) == Len(objects) + 1

\* The objects after the construction of object o with fields initial.
Constructed(objects, o, initial) ==
    [k \in 1..(IF o > Len(objects) THEN o ELSE Len(objects)) |->
        IF k = o THEN initial ELSE objects[k]]

RunsInit ==
    /\ rRuns = [r \in Runs |-> [pc |-> "ready", cache |-> 0, rateLimiter |-> 0]]
    /\ rCaches = <<>>
    /\ rLimiters = <<>>
    /\ rNow = 0
    /\ rActor = "none"

\* handleCollation of run r: new EmailCollator(data.settings).
RunConstruct(r) ==
    /\ rRuns[r].pc = "ready"
    /\ LET c == New(rCaches)
           l == New(rLimiters)
       IN /\ rCaches' = Constructed(rCaches, c, <<>>)
          /\ rLimiters' = Constructed(rLimiters, l, <<>>)
          /\ rRuns' = [rRuns EXCEPT ![r] = [pc |-> "running", cache |-> c, rateLimiter |-> l]]
    /\ rActor' = r
    /\ UNCHANGED rNow

\* getEmbedding of run r: await this.rateLimiter.throttle(), one evaluation
\* (the limiter scaled to one request per window of one unit).
RunThrottle(r) ==
    /\ rRuns[r].pc = "running"
    /\ rLimiters' = [rLimiters EXCEPT ![rRuns[r].rateLimiter] =
                        RateLimiter_throttle(@, rNow, 1, 1).requestTimestamps]
    /\ rActor' = r
    /\ UNCHANGED <<rRuns, rCaches, rNow>>

\* getEmbedding of run r: await this.cache.set(text, embedding), the cache
\* scaled to MaxCacheSize entries.
RunStore(r, text) ==
    /\ rRuns[r].pc = "running"
    /\ rCaches' = [rCaches EXCEPT ![rRuns[r].cache] =
                      EmbeddingCache_set(@, MaxCacheSize, text, RunVector)]
    /\ rActor' = r
    /\ UNCHANGED <<rRuns, rLimiters, rNow>>

\* handleCollation of run r returns.
RunReturn(r) ==
    /\ rRuns[r].pc = "running"
    /\ rRuns' = [rRuns EXCEPT ![r].pc = "returned"]
    /\ rActor' = r
    /\ UNCHANGED <<rCaches, rLimiters, rNow>>

\* Time passes.
RunTick ==
    /\ rNow < MaxTime
    /\ rNow' = rNow + 1
    /\ rActor' = "none"
    /\ UNCHANGED <<rRuns, rCaches, rLimiters>>

\* No run of handleCollation.
RunsIdle ==
    /\ rRuns = <<>>
    /\ rCaches = <<>>
    /\ rLimiters = <<>>
    /\ rNow = 0
    /\ rActor = "none"

\* No history of the callers of throttle(), no set in flight.
RestIdle == tSeen = <<>> /\ setters = <<>>

\* No run of collate followed message by message.
PipeIdle ==
    /\ cMessages = <<>>
    /\ cPc = "idle"
    /\ cI = 0
    /\ messageContents = <<>>
    /\ cWithEmbeddings = <<>>
    /\ cUnique = <<>>
    /\ cReport = <<>>

\* No request delivered to the listener.
ListenerIdle == lRequests = <<>>

LastIdle == PipeIdle /\ ListenerIdle

MoreIdle == DedupIdle /\ CosineIdle /\ CollateIdle /\ RunsIdle /\ RestIdle /\ LastIdle

(***************************************************************************)
(* EmbeddingService (embeddings.js 8-122).                                 *)
(***************************************************************************)
\* The ways a fetch and the reading of its response can end: a throw
\* (transport failure, non-2xx status, unreadable body), or a payload whose
\* vector field holds a vector or is missing.
Fetched ==
    {[threw |-> TRUE, called |-> TRUE, embedding |-> Undefined]}
    \cup {[threw |-> FALSE, called |-> TRUE, embedding |-> e] : e \in Vectors \cup {Undefined}}

getOllamaEmbedding(cfg) == Fetched

getGeminiEmbedding(cfg) ==
    IF ~cfg.apiKey
    THEN {[threw |-> TRUE, called |-> FALSE, embedding |-> Undefined]}
    ELSE Fetched

\* Lines 57-64 of getEmbedding: the provider branch.
Provider(cfg) ==
    IF cfg.provider = "ollama" THEN getOllamaEmbedding(cfg)
    ELSE IF cfg.provider = "gemini" THEN getGeminiEmbedding(cfg)
    ELSE {[threw |-> TRUE, called |-> FALSE, embedding |-> Undefined]}

\* A lookup that never uses what the cache returns.
IgnoreCached(cached) == FALSE
\* if (cached)
IsHit(cached) == Truthy(cached)

\* A result built newest first.
Prepended(results, message, e) ==
    <<[id |-> message.id, body |-> message.body, embedding |-> e]>> \o results
\* messagesWithEmbeddings.push({ ...message, embedding })
Pushed(results, message, e) ==
    Append(results, [id |-> message.id, body |-> message.body, embedding |-> e])

\* A catch that lets the error out of the batch.
Rethrown(results, message) == [raised |-> TRUE, results |-> results]
\* The catch block (lines 32-36): the message is kept, without embedding.
Caught(results, message) ==
    [raised |-> FALSE, results |-> Pushed(results, message, Null)]

\* A progress report made before the count is raised.
ProgressBeforeCount(n, total) == <<n - 1, total>>
\* count++; onProgress(count, messages.length), with n the count before.
Progress(n, total) == <<n + 1, total>>

Settings ==
    {[provider |-> "ollama", apiKey |-> FALSE],
     [provider |-> "gemini", apiKey |-> TRUE],
     [provider |-> "gemini", apiKey |-> FALSE],
     [provider |-> "cohere", apiKey |-> FALSE]}

\* The batches: up to MaxDocs messages, the k-th with id k and any body.
Batches ==
    UNION {{[k \in 1..n |-> [id |-> k, body |-> b[k]]] : b \in [1..n -> Texts]} : n \in 0..MaxDocs}

NoRequest == [text |-> <<>>, found |-> FALSE, timestamps |-> <<>>, calls |-> <<>>, suspended |-> 0]

\* new EmbeddingService(settings) with its cache and rate limiter (the model
\* scales the cache to 1..MaxCacheSize entries and the limiter to one
\* request per window of one unit), and a batch about to start.
BatchInit ==
    /\ cache = <<>>
    /\ maxSize \in 1..MaxCacheSize
    /\ lastOp = NoOp
    /\ insertedAt = [k \in Keys |-> 0]
    /\ nSets = 0
    /\ requestTimestamps = <<>>
    /\ maxRequests = 1
    /\ timeWindow = 1
    /\ now = 0
    /\ callers = [c \in Callers |-> [pc |-> "ready", wakeAt |-> 0, suspended |-> 0]]
    /\ granted = <<>>
    /\ settings \in Settings
    /\ threshold = DefaultThreshold
    /\ messages \in Batches
    /\ count = 0
    /\ pc = "lookup"
    /\ wakeAt = 0
    /\ embedding = Undefined
    /\ messagesWithEmbeddings = <<>>
    /\ progressLog = <<>>
    /\ uniqueMessages = <<>>
    /\ providerCalls = <<>>
    /\ outcome = <<>>
    /\ request = NoRequest

\* The message the loop is at.
Message == messages[count + 1]

\* The end of one iteration of the loop: the result r of the try/catch, the
\* count, the progress report, and on to the next message or out of the loop.
Iterated(r, how) ==
    /\ messagesWithEmbeddings' = r.results
    /\ outcome' = Append(outcome, how)
    /\ IF r.raised
       THEN /\ pc' = "raised"
            /\ UNCHANGED <<count, progressLog>>
       ELSE /\ count' = count + 1
            /\ progressLog' = Append(progressLog, Progress(count, Len(messages)))
            /\ pc' = IF count + 1 < Len(messages) THEN "lookup" ELSE "returned"
    /\ embedding' = Undefined

\* getEmbedding: await this.cache.get(text), and the return on a hit.
Lookup ==
    /\ pc = "lookup"
    /\ count < Len(messages)
    /\ LET got == EmbeddingCache_get(cache, Message.body)
           req == [text |-> Message.body, found |-> Truthy(MapGet(cache, getKey(Message.body))),
                   timestamps |-> requestTimestamps, calls |-> providerCalls, suspended |-> 0]
       IN /\ cache' = got.cache
          /\ request' = req
          /\ IF IsHit(got.value)
             THEN Iterated([raised |-> FALSE,
                            results |-> Pushed(messagesWithEmbeddings, Message, got.value)],
                           [kind |-> "hit", value |-> got.value, suspended |-> 0])
             ELSE /\ pc' = "throttle"
                  /\ UNCHANGED <<count, embedding, messagesWithEmbeddings, progressLog, outcome>>
    /\ UNCHANGED <<moreVars, maxSize, lastOp, insertedAt, nSets, throttleVars, settings, threshold,
                   messages, wakeAt, uniqueMessages, providerCalls>>

\* An empty batch returns at once.
ReturnEmpty ==
    /\ pc = "lookup"
    /\ count = Len(messages)
    /\ pc' = "returned"
    /\ UNCHANGED <<moreVars, cacheVars, throttleVars, settings, threshold, messages, count, wakeAt,
                   embedding, messagesWithEmbeddings, progressLog, uniqueMessages,
                   providerCalls, outcome, request>>

\* The outcome r of an evaluation of throttle() made for the batch.
Admission(r) ==
    /\ requestTimestamps' = r.requestTimestamps
    /\ IF r.admitted
       THEN /\ granted' = Append(granted, now)
            /\ pc' = "provider"
            /\ wakeAt' = 0
            /\ request' = request
       ELSE /\ granted' = granted
            /\ pc' = "waiting"
            /\ wakeAt' = now + r.waitTime
            /\ request' = [request EXCEPT !.suspended = @ + 1]
    /\ UNCHANGED <<moreVars, cacheVars, maxRequests, timeWindow, now, callers, settings, threshold,
                   messages, count, embedding, messagesWithEmbeddings, progressLog,
                   uniqueMessages, providerCalls, outcome>>

\* A getEmbedding that goes to the provider without calling throttle().
AcquireSkipped ==
    /\ pc = "throttle"
    /\ pc' = "provider"
    /\ UNCHANGED <<moreVars, cacheVars, throttleVars, settings, threshold, messages, count,
                   wakeAt, embedding, messagesWithEmbeddings, progressLog, uniqueMessages,
                   providerCalls, outcome, request>>
\* getEmbedding: await this.rateLimiter.throttle()
Acquire ==
    /\ pc = "throttle"
    /\ Admission(RateLimiter_throttle(requestTimestamps, now, maxRequests, timeWindow))

\* The timer of the suspended throttle() fires.
Resume ==
    /\ pc = "waiting"
    /\ now >= wakeAt
    /\ Admission(Retry(requestTimestamps, now, maxRequests, timeWindow))

\* A getEmbedding that records a failed provider call in the cache.
EmbedStoresFailure ==
    /\ pc = "provider"
    /\ \E r \in Provider(settings) :
        /\ providerCalls' = IF r.called THEN Append(providerCalls, Message.body) ELSE providerCalls
        /\ IF r.threw
           THEN /\ Iterated(Caught(messagesWithEmbeddings, Message),
                            [kind |-> "threw", value |-> Undefined, suspended |-> request.suspended])
                /\ cache' = MapSet(cache, getKey(Message.body), Null)
           ELSE /\ embedding' = r.embedding
                /\ pc' = "store"
                /\ UNCHANGED <<cache, count, messagesWithEmbeddings, progressLog, outcome>>
    /\ UNCHANGED <<moreVars, maxSize, lastOp, insertedAt, nSets, throttleVars, settings,
                   threshold, messages, wakeAt, uniqueMessages, request>>
\* getEmbedding: the provider call, and the catch when it throws.
Embed ==
    /\ pc = "provider"
    /\ \E r \in Provider(settings) :
        /\ providerCalls' = IF r.called THEN Append(providerCalls, Message.body) ELSE providerCalls
        /\ IF r.threw
           THEN Iterated(Caught(messagesWithEmbeddings, Message),
                         [kind |-> "threw", value |-> Undefined, suspended |-> request.suspended])
           ELSE /\ embedding' = r.embedding
                /\ pc' = "store"
                /\ UNCHANGED <<count, messagesWithEmbeddings, progressLog, outcome>>
    /\ UNCHANGED <<moreVars, cacheVars, throttleVars, settings, threshold, messages, wakeAt,
                   uniqueMessages, request>>

\* getEmbedding: await this.cache.set(text, embedding), and the return.
Store ==
    /\ pc = "store"
    /\ cache' = EmbeddingCache_set(cache, maxSize, Message.body, embedding)
    /\ Iterated([raised |-> FALSE,
                 results |-> Pushed(messagesWithEmbeddings, Message, embedding)],
                [kind |-> "fetched", value |-> embedding, suspended |-> request.suspended])
    /\ UNCHANGED <<moreVars, maxSize, lastOp, insertedAt, nSets, throttleVars, settings, threshold,
                   messages, wakeAt, uniqueMessages, providerCalls, request>>

\* collate, step 4: this.deduplicator.deduplicate(messagesWithEmbeddings)
Deduplicate ==
    /\ pc = "returned"
    /\ uniqueMessages' = deduplicate(messagesWithEmbeddings, threshold)
    /\ pc' = "done"
    /\ UNCHANGED <<moreVars, cacheVars, throttleVars, settings, threshold, messages, count, wakeAt,
                   embedding, messagesWithEmbeddings, progressLog, providerCalls, outcome,
                   request>>

\* Time passes. Only throttle() reads the clock, so the model lets time pass
\* where the batch is about to evaluate throttle() or is suspended in it.
TickBatch == Tick /\ pc \in {"throttle", "waiting"} /\ UNCHANGED <<moreVars, cacheVars, batchVars>>

Init == BatchInit /\ MoreIdle

Next == Lookup \/ ReturnEmpty \/ Acquire \/ Resume \/ Embed \/ Store \/ Deduplicate \/ TickBatch

Spec == Init /\ [][Next]_vars

\* The batch variables of a model in which no batch runs.
BatchRestIdle ==
    /\ settings = [provider |-> "ollama", apiKey |-> FALSE]
    /\ messages = <<>>
    /\ count = 0
    /\ pc = "idle"
    /\ wakeAt = 0
    /\ embedding = Undefined
    /\ messagesWithEmbeddings = <<>>
    /\ progressLog = <<>>
    /\ uniqueMessages = <<>>
    /\ providerCalls = <<>>
    /\ outcome = <<>>
    /\ request = NoRequest

BatchIdle == threshold = DefaultThreshold /\ BatchRestIdle

(***************************************************************************)
(* SpecCache: one cache, any sequence of get and set calls.                *)
(***************************************************************************)
CacheIdle ==
    /\ cache = <<>>
    /\ maxSize = 1
    /\ lastOp = NoOp
    /\ insertedAt = [k \in Keys |-> 0]
    /\ nSets = 0

ThrottleIdle ==
    /\ requestTimestamps = <<>>
    /\ maxRequests = 1
    /\ timeWindow = 1
    /\ now = 0
    /\ callers = [c \in Callers |-> [pc |-> "ready", wakeAt |-> 0, suspended |-> 0]]
    /\ granted = <<>>

InitCache == CacheInit /\ ThrottleIdle /\ BatchIdle /\ MoreIdle

CacheGetCall == \E t \in Texts : CacheGet(t) /\ UNCHANGED <<moreVars, throttleVars, batchVars>>

CacheSetCall == \E t \in Texts, e \in Storable : CacheSet(t, e) /\ UNCHANGED <<moreVars, throttleVars, batchVars>>

NextCache == CacheGetCall \/ CacheSetCall

SpecCache == InitCache /\ [][NextCache]_vars

(***************************************************************************)
(* SpecThrottle: one rate limiter, several callers.                        *)
(***************************************************************************)
InitThrottle == ThrottleInit /\ CacheIdle /\ BatchIdle /\ MoreIdle

ThrottleCall == \E c \in Callers : Throttle(c) /\ UNCHANGED <<moreVars, cacheVars, batchVars>>

WakeCall == \E c \in Callers : Wake(c) /\ UNCHANGED <<moreVars, cacheVars, batchVars>>

TickThrottle == Tick /\ UNCHANGED <<moreVars, cacheVars, batchVars>>

NextThrottle == ThrottleCall \/ WakeCall \/ TickThrottle

SpecThrottle == InitThrottle /\ [][NextThrottle]_vars

(***************************************************************************)
(* SpecThrottleFair: MaxCalls calls of throttle() by concurrent callers,   *)
(* with a clock that keeps advancing while a caller waits and timers that  *)
(* fire when they are due.                                                 *)
(***************************************************************************)
otherThanThrottle ==
    <<cacheVars, batchVars, dedupVars, cosineVars, collateVars, runVars, setters,
      lastVars>>

InitThrottleFair ==
    /\ ThrottleInit
    /\ tSeen = [c \in Callers |-> 0]
    /\ setters = <<>>
    /\ CacheIdle /\ BatchIdle /\ DedupIdle /\ CosineIdle /\ CollateIdle /\ RunsIdle
    /\ LastIdle

\* The calls of throttle() made so far: each is granted or still waiting.
CallsStarted == Len(granted) + Cardinality({c \in Callers : callers[c].pc = "waiting"})

\* Caller c has evaluated throttle().
Seen(c) == tSeen' = [tSeen EXCEPT ![c] = Len(granted')]

\* The timer of caller c is due.
Due(c) == callers[c].pc = "waiting" /\ now >= callers[c].wakeAt

FairCall ==
    /\ CallsStarted < MaxCalls
    /\ \E c \in Callers : Throttle(c) /\ Seen(c)
    /\ UNCHANGED otherThanThrottle

FairWake(c) == Wake(c) /\ Seen(c) /\ UNCHANGED otherThanThrottle

FairWakes == \E c \in Callers : FairWake(c)

\* Time passes: not past a timer that is due, and beyond MaxTime only while
\* a caller waits.
FairTick ==
    /\ now < MaxTime \/ \E c \in Callers : callers[c].pc = "waiting"
    /\ \A c \in Callers : ~Due(c)
    /\ now' = now + 1
    /\ UNCHANGED <<requestTimestamps, maxRequests, timeWindow, callers, granted, tSeen>>
    /\ UNCHANGED otherThanThrottle

NextThrottleFair == FairCall \/ FairWakes \/ FairTick

SpecThrottleFair ==
    /\ InitThrottleFair
    /\ [][NextThrottleFair]_vars
    /\ WF_vars(FairTick)
    /\ \A c \in Callers : WF_vars(FairWake(c))

(***************************************************************************)
(* SpecSets: calls of set on one cache, in flight at once: a call runs     *)
(* from its start to its await (the hashing of the text), and from there   *)
(* to its end, and other calls run in between.                             *)
(***************************************************************************)
Setters == 1..NumSetters

otherThanSets ==
    <<throttleVars, batchVars, dedupVars, cosineVars, collateVars, runVars, tSeen,
      lastVars>>

InitSets ==
    /\ CacheInit
    /\ setters = [s \in Setters |-> [pc |-> "ready", text |-> <<>>, vector |-> Undefined]]
    /\ tSeen = <<>>
    /\ ThrottleIdle /\ BatchIdle /\ DedupIdle /\ CosineIdle /\ CollateIdle /\ RunsIdle
    /\ LastIdle

\* set(text, vector), lines 104-109: the capacity check, the eviction, and
\* the await of getKey.
SetBegin(s, text, vector) ==
    /\ setters[s].pc = "ready"
    /\ nSets < MaxCacheOps
    /\ nSets' = nSets + 1
    /\ cache' = Evict(cache, maxSize)
    /\ setters' = [setters EXCEPT ![s] = [pc |-> "hashing", text |-> text, vector |-> vector]]
    /\ UNCHANGED <<maxSize, lastOp, insertedAt>>

\* set, line 110: the insertion, once the key is there.
SetEnd(s) ==
    /\ setters[s].pc = "hashing"
    /\ cache' = Insert(cache, setters[s].text, setters[s].vector)
    /\ setters' = [setters EXCEPT ![s].pc = "ready"]
    /\ UNCHANGED <<maxSize, lastOp, insertedAt, nSets>>

SetsBegin ==
    /\ \E s \in Setters, text \in Texts : SetBegin(s, text, RunVector)
    /\ UNCHANGED otherThanSets

SetsEnd == (\E s \in Setters : SetEnd(s)) /\ UNCHANGED otherThanSets

NextSets == SetsBegin \/ SetsEnd

SpecSets == InitSets /\ [][NextSets]_vars

(***************************************************************************)
(* SpecDedup: one call of deduplicate, on any messages.                    *)
(***************************************************************************)
otherThanDedup == <<cacheVars, throttleVars, settings, messages, count, pc, wakeAt,
                    embedding, messagesWithEmbeddings, progressLog, uniqueMessages,
                    providerCalls, outcome, request, cosineVars, collateVars, runVars,
                    restVars, lastVars>>

InitDedup ==
    DedupInit /\ CacheIdle /\ ThrottleIdle /\ BatchRestIdle /\ CosineIdle /\ CollateIdle
    /\ RunsIdle /\ RestIdle /\ LastIdle

DedupOuter == OuterStep /\ UNCHANGED <<otherThanDedup, threshold>>

DedupSkip == InnerSkip /\ UNCHANGED <<otherThanDedup, threshold>>

DedupCompare == InnerCompare /\ UNCHANGED <<otherThanDedup, threshold>>

DedupCollect == Collect /\ UNCHANGED <<otherThanDedup, threshold>>

NextDedup == DedupOuter \/ DedupSkip \/ DedupCompare \/ DedupCollect

SpecDedup == InitDedup /\ [][NextDedup]_vars

(***************************************************************************)
(* SpecCosine: calls of cosineSimilarity, on any two arguments.            *)
(***************************************************************************)
InitCosine ==
    CosineIdle /\ CacheIdle /\ ThrottleIdle /\ BatchIdle /\ DedupIdle /\ CollateIdle
    /\ RunsIdle /\ RestIdle /\ LastIdle

Cosine ==
    /\ \E vecA, vecB \in CosineInputs : CosineCall(vecA, vecB)
    /\ UNCHANGED <<cacheVars, throttleVars, batchVars, dedupVars, collateVars, runVars,
                   restVars, lastVars>>

NextCosine == Cosine

SpecCosine == InitCosine /\ [][NextCosine]_vars

(***************************************************************************)
(* SpecCollate: one call of handleCollation.                               *)
(***************************************************************************)
otherThanCollate ==
    <<cacheVars, throttleVars, batchVars, dedupVars, cosineVars, runVars, restVars,
      lastVars>>

InitCollate ==
    CollateInit /\ CacheIdle /\ ThrottleIdle /\ BatchIdle /\ DedupIdle /\ CosineIdle /\ RunsIdle
    /\ RestIdle /\ LastIdle

HandlerConstruct == Construct /\ UNCHANGED otherThanCollate

HandlerCollate == CollateStart /\ UNCHANGED otherThanCollate

HandlerFetch == (\E n \in 0..MaxFound : Fetch(n)) /\ UNCHANGED otherThanCollate

HandlerExtract == (\E embeddable \in BOOLEAN : Extract(embeddable)) /\ UNCHANGED otherThanCollate

HandlerExtracted == Extracted /\ UNCHANGED otherThanCollate

HandlerEmbed == EmbedOne /\ UNCHANGED otherThanCollate

HandlerFinish == Finish /\ UNCHANGED otherThanCollate

HandlerDeliver == (\E ok \in BOOLEAN : Deliver(ok)) /\ UNCHANGED otherThanCollate

NextCollate ==
    \/ HandlerConstruct
    \/ HandlerCollate
    \/ HandlerFetch
    \/ HandlerExtract
    \/ HandlerExtracted
    \/ HandlerEmbed
    \/ HandlerFinish
    \/ HandlerDeliver

SpecCollate == InitCollate /\ [][NextCollate]_vars

(***************************************************************************)
(* SpecRuns: two calls of handleCollation, interleaved at their awaits.    *)
(***************************************************************************)
otherThanRuns ==
    <<cacheVars, throttleVars, batchVars, dedupVars, cosineVars, collateVars, restVars,
      lastVars>>

InitRuns ==
    RunsInit /\ CacheIdle /\ ThrottleIdle /\ BatchIdle /\ DedupIdle /\ CosineIdle /\ CollateIdle
    /\ RestIdle /\ LastIdle

RunsConstruct == (\E r \in Runs : RunConstruct(r)) /\ UNCHANGED otherThanRuns

RunsThrottle == (\E r \in Runs : RunThrottle(r)) /\ UNCHANGED otherThanRuns

RunsStore == (\E r \in Runs, text \in RunTexts : RunStore(r, text)) /\ UNCHANGED otherThanRuns

RunsReturn == (\E r \in Runs : RunReturn(r)) /\ UNCHANGED otherThanRuns

RunsTick == RunTick /\ UNCHANGED otherThanRuns

NextRuns == RunsConstruct \/ RunsThrottle \/ RunsStore \/ RunsReturn \/ RunsTick

SpecRuns == InitRuns /\ [][NextRuns]_vars

(***************************************************************************)
(* Claims about the cache, checked under SpecCache.                        *)
(***************************************************************************)
\* The step is a completed set call / a get call.
SetStep == nSets' = nSets + 1 /\ lastOp'.op = "set"
GetStep == nSets' = nSets /\ lastOp'.op = "get" /\ <<cache, lastOp>>' # <<cache, lastOp>>

\* C5: after any sequence of set calls, each run to completion, the cache
\* holds at most maxSize entries.
C5_CacheBound == Len(cache) <= maxSize

\* A set call was made on a full cache and left it full.
C5_Witness ==
    /\ lastOp.op = "set"
    /\ lastOp.evicted # {}
    /\ Len(cache) = maxSize
    /\ nSets > maxSize

C7_GetAfterSet ==
    [][ \A t \in Texts :
          LET k == getKey(t) IN
          /\ (SetStep /\ lastOp'.text = t) =>
                EmbeddingCache_get(cache', t).value = lastOp'.value
          /\ (~(SetStep /\ lastOp'.text = t) /\ insertedAt[k] # 0 /\ insertedAt'[k] = insertedAt[k]) =>
                EmbeddingCache_get(cache', t).value = EmbeddingCache_get(cache, t).value
          /\ (GetStep /\ lastOp'.text = t /\ insertedAt[k] # 0) =>
                lastOp'.value = MapGet(cache, k)
      ]_vars

\* A get returns the vector of an entry after which another entry was inserted.
C7_Witness ==
    /\ lastOp.op = "get"
    /\ lastOp.value \in Vectors
    /\ insertedAt[getKey(lastOp.text)] # 0
    /\ insertedAt[getKey(lastOp.text)] < nSets
    /\ Len(cache) >= 2

(***************************************************************************)
(* Claims about the rate limiter, checked under SpecThrottle.              *)
(***************************************************************************)
\* The number of admissions of history g that lie in the window of length
\* timeWindow ending at time T: the times t with T - timeWindow < t <= T.
InWindow(g, T) ==
    Cardinality({i \in 1..Len(g) : T - timeWindow < g[i] /\ g[i] <= T})

\* C3: for any sequence of throttle calls at any times, the number of
\* admissions granted within any trailing window of length timeWindow
\* (the timeWindow clock values up to and including its end) never exceeds
\* maxRequests.
C3_AdmissionBound == \A T \in 0..MaxTime : InWindow(granted, T) <= maxRequests

\* The window is full, and an admission was granted after an earlier one left it.
C3_Witness ==
    /\ InWindow(granted, now) = maxRequests
    /\ Len(granted) > maxRequests
    /\ \E c \in Callers : callers[c].pc = "waiting"

\* C4: with several throttle calls in flight, the admission decision and the
\* recording of the timestamp are one step: a step admits one caller only,
\* only when fewer than maxRequests admissions lie in the window, and leaves
\* every admission of the window, the new one included, recorded in
\* requestTimestamps; so no two callers are admitted on the same free slot.
C4_AtomicAdmission ==
    [][ Len(granted') > Len(granted) =>
          /\ Len(granted') = Len(granted) + 1
          /\ InWindow(granted, now) < maxRequests
          /\ Len(requestTimestamps') = InWindow(granted', now)
          /\ requestTimestamps'[Len(requestTimestamps')] = now
      ]_vars

\* A waiter has just been admitted while another waiter is due at the same instant.
C4_Witness ==
    \E c1, c2 \in Callers :
        /\ c1 # c2
        /\ callers[c1].pc = "ready"
        /\ callers[c1].suspended >= 1
        /\ granted # <<>>
        /\ granted[Len(granted)] = now
        /\ callers[c2].pc = "waiting"
        /\ callers[c2].wakeAt <= now

(***************************************************************************)
(* Claims about the batch, checked under Spec.                             *)
(***************************************************************************)
\* generateEmbeddingsForMessages has returned.
Returned == pc \in {"returned", "done"}

\* C1: whatever getEmbedding calls of a batch throw, the batch does not
\* raise and goes on with the next message; when it returns there is one
\* entry per input message, the entry of a message whose call threw has a
\* null embedding, and every other entry has the embedding its call returned.
C1_FailuresAbsorbed ==
    /\ pc # "raised"
    /\ Len(outcome) = count
    /\ Returned =>
        /\ Len(messagesWithEmbeddings) = Len(messages)
        /\ \A k \in 1..Len(messages) :
              IF outcome[k].kind = "threw"
              THEN messagesWithEmbeddings[k].embedding = Null
              ELSE messagesWithEmbeddings[k].embedding = outcome[k].value

\* A batch has returned in which a call threw and a later call got a vector.
C1_Witness ==
    /\ Returned
    /\ \E k, l \in 1..Len(messages) :
          /\ k < l
          /\ outcome[k].kind = "threw"
          /\ outcome[l].kind = "fetched"
          /\ messagesWithEmbeddings[l].embedding \in Vectors

\* C2: a getEmbedding call that finds the text in the cache records no
\* throttle admission and makes no provider call: the timestamp window and
\* the provider calls are what they were when the call started.
C2_HitIsFree ==
    request.found =>
        /\ requestTimestamps = request.timestamps
        /\ providerCalls = request.calls
        /\ pc \notin {"throttle", "waiting", "provider", "store"}

\* A call has found its text in the cache, after an admission was recorded.
C2_Witness ==
    /\ request.found
    /\ requestTimestamps # <<>>
    /\ count >= 2
    /\ outcome[count].kind = "hit"

\* C8: the result preserves input order: its k-th entry is the k-th input
\* message with its id and body, through hits, misses, waits and failures,
\* and a returned result has an entry for every input message.
C8_OrderPreserved ==
    /\ Len(messagesWithEmbeddings) <= Len(messages)
    /\ \A k \in 1..Len(messagesWithEmbeddings) :
          /\ messagesWithEmbeddings[k].id = messages[k].id
          /\ messagesWithEmbeddings[k].body = messages[k].body
    /\ Returned => Len(messagesWithEmbeddings) = Len(messages)

\* A batch has returned after a miss, a hit and a failure that followed a wait.
C8_Witness ==
    /\ Returned
    /\ \E k, l, m \in 1..Len(messages) :
          /\ outcome[k].kind = "fetched"
          /\ outcome[l].kind = "hit"
          /\ outcome[m].kind = "threw"
          /\ outcome[m].suspended >= 1

\* C9: onProgress is called once per message, the k-th call with (k, n),
\* after message k is processed and before message k + 1 is started: at any
\* moment the calls made are those of the messages processed so far, and
\* on return there are n of them.
C9_ProgressInOrder ==
    /\ Len(progressLog) = count
    /\ Len(messagesWithEmbeddings) = count
    /\ \A k \in 1..Len(progressLog) : progressLog[k] = <<k, Len(messages)>>
    /\ Returned => Len(progressLog) = Len(messages)

\* All the progress calls of a batch with a failed message have been made.
C9_Witness ==
    /\ Returned
    /\ Len(progressLog) >= 2
    /\ \E k \in 1..Len(messages) : outcome[k].kind = "threw"
    /\ \E k \in 1..Len(messages) : outcome[k].kind # "threw"

\* Every getEmbedding call of the batch threw.
AllFailed == \A k \in 1..Len(outcome) : outcome[k].kind = "threw"

\* C10: when every provider call of a run fails, deduplicate applied to the
\* result of the batch returns every input message, in input order.
C10_NothingLost ==
    (pc = "done" /\ AllFailed) =>
        /\ Len(uniqueMessages) = Len(messages)
        /\ \A k \in 1..Len(messages) :
              /\ uniqueMessages[k].id = messages[k].id
              /\ uniqueMessages[k].body = messages[k].body

\* A run of several messages is done, all of whose provider calls failed on the network.
C10_Witness ==
    /\ pc = "done"
    /\ AllFailed
    /\ Len(messages) >= 2
    /\ Len(providerCalls) = Len(messages)

(***************************************************************************)
(* Claims about deduplicate, checked under SpecDedup.                      *)
(***************************************************************************)
\* Messages a and b of the call are more similar than the threshold.
Similar(a, b) ==
    Exceeds(cosineSimilarity(dMessages[a].embedding, dMessages[b].embedding), threshold)
\* The step compares messages dI and dJ.
CompareStep == dCompared' = Append(dCompared, <<dI, dJ>>)
\* The ids of the messages returned.
KeptIds == {dUnique[k].id : k \in 1..Len(dUnique)}

\* C11: the output of deduplicate is a subsequence of its input: every
\* message returned is a message of the input, none is returned twice, and
\* the messages returned keep the relative order they had in the input.
C11_Subsequence ==
    dPc = "done" =>
        /\ \A k \in 1..Len(dUnique) :
              dUnique[k].id \in 1..Len(dMessages) /\ dUnique[k] = dMessages[dUnique[k].id]
        /\ \A k \in 1..(Len(dUnique) - 1) : dUnique[k].id < dUnique[k + 1].id
\* A call that returned the first and the third message without the second.
C11_Witness ==
    /\ dPc = "done"
    /\ Len(dMessages) = 3
    /\ Len(dUnique) = 2
    /\ dUnique[1].id = 1
    /\ dUnique[2].id = 3

\* C12: deduplicate is idempotent: applied to its own output it returns that
\* output, also when similarity is not transitive among the messages.
C12_Idempotent == dPc = "done" => deduplicate(dUnique, threshold) = dUnique
\* A call that kept two messages not similar to each other and removed a
\* message similar to both.
C12_Witness ==
    /\ dPc = "done"
    /\ \E a, b, c \in 1..Len(dMessages) :
          /\ a < b
          /\ a \in KeptIds /\ b \in KeptIds /\ c \notin KeptIds
          /\ ~NoEmbedding(dMessages[a]) /\ ~NoEmbedding(dMessages[b])
          /\ ~Similar(a, b) /\ Similar(a, c) /\ Similar(c, b)

\* The embedding of message k is absent or has no component.
AbsentOrEmpty(k) ==
    \/ dMessages[k].embedding \in {Null, Undefined}
    \/ dMessages[k].embedding = Array(<<>>)
\* C13: every message whose embedding is absent or empty is in the output,
\* whatever the other messages and the threshold, and only messages with a
\* non-empty embedding are ever marked duplicate.
C13_EmptyRetained ==
    /\ \A k \in 1..Len(dIsDuplicate) : dIsDuplicate[k] => ~AbsentOrEmpty(k)
    /\ dPc = "done" => \A k \in 1..Len(dMessages) : AbsentOrEmpty(k) => k \in KeptIds

\* C14: when a compared pair is more similar than the threshold and the
\* bodies differ in length, exactly the message with the shorter body is
\* marked: j when the body of i is longer, and the scan of i goes on with the
\* next j; i when the body of j is longer, and the scan of i stops.  A pair
\* not more similar than the threshold marks neither.
C14_ShorterMarked ==
    [][CompareStep =>
         LET bi == Len(dMessages[dI].body)
             bj == Len(dMessages[dJ].body)
         IN /\ Similar(dI, dJ) /\ bi > bj =>
                  /\ dIsDuplicate' = [dIsDuplicate EXCEPT ![dJ] = TRUE]
                  /\ dPc' = "inner" /\ dI' = dI /\ dJ' = dJ + 1
            /\ Similar(dI, dJ) /\ bi < bj =>
                  /\ dIsDuplicate' = [dIsDuplicate EXCEPT ![dI] = TRUE]
                  /\ dPc' = "outer" /\ dI' = dI + 1
            /\ ~Similar(dI, dJ) => dIsDuplicate' = dIsDuplicate]_vars
\* A call in which i had the longer body of a similar pair, j was marked and
\* i was compared with the next message.
C14_Witness ==
    \E m, n \in 1..Len(dCompared) :
        /\ m < n
        /\ dCompared[m][1] = dCompared[n][1]
        /\ Similar(dCompared[m][1], dCompared[m][2])
        /\ Len(dMessages[dCompared[m][1]].body) > Len(dMessages[dCompared[m][2]].body)
        /\ dIsDuplicate[dCompared[m][2]]
        /\ ~dIsDuplicate[dCompared[m][1]]

\* Pair m of the comparisons made was more similar than the threshold, with
\* bodies of equal length.
Tie(m) ==
    /\ Similar(dCompared[m][1], dCompared[m][2])
    /\ Len(dMessages[dCompared[m][1]].body) = Len(dMessages[dCompared[m][2]].body)
\* C15: when a compared pair is more similar than the threshold and the
\* bodies have equal length, i is marked, j is not marked by the comparison,
\* and i is compared with no further j.
C15_TieMarksFirst ==
    [][CompareStep =>
         /\ Similar(dI, dJ) /\ Len(dMessages[dI].body) = Len(dMessages[dJ].body) =>
               /\ dIsDuplicate' = [dIsDuplicate EXCEPT ![dI] = TRUE]
               /\ ~dIsDuplicate'[dJ]
               /\ dPc' = "outer" /\ dI' = dI + 1
         /\ \A m \in 1..Len(dCompared) : Tie(m) => dCompared[m][1] # dI]_vars
\* A finished call with a tie between i and j, where i was marked, j was
\* kept, and a later message with an embedding was never compared with i.
C15_Witness ==
    /\ dPc = "done"
    /\ \E m \in 1..Len(dCompared) :
          /\ Tie(m)
          /\ dIsDuplicate[dCompared[m][1]]
          /\ ~dIsDuplicate[dCompared[m][2]]
          /\ dCompared[m][2] < Len(dMessages)
          /\ ~NoEmbedding(dMessages[Len(dMessages)])
          /\ <<dCompared[m][1], Len(dMessages)>> \notin {dCompared[n] : n \in 1..Len(dCompared)}
(***************************************************************************)
(* Claims about cosineSimilarity, checked under SpecCosine.                *)
(***************************************************************************)
\* The sum of the products of the components of two arrays of equal length.
SumOfProducts(a, b) ==
    LET S[k \in 0..Len(a.items)] ==
            IF k = 0 THEN 0 ELSE S[k - 1] + a.items[k] * b.items[k]
    IN S[Len(a.items)]
\* v is missing, or every component of v is 0 (v may have none).
Missing(v) == v \in {Null, Undefined}
ZeroNorm(v) == \A k \in 1..Len(v.items) : v.items[k] = 0

\* C16: cosineSimilarity returns for every pair of arguments: exactly 0 when
\* a vector is missing, when the lengths differ, or when a vector has zero
\* norm (an empty vector included); otherwise the dot product over the
\* product of the two Euclidean norms.
C16_CosineTotal ==
    cosCalled =>
        IF Missing(cosVecA) \/ Missing(cosVecB) THEN cosReturned = Zero
        ELSE IF Len(cosVecA.items) # Len(cosVecB.items) THEN cosReturned = Zero
        ELSE IF ZeroNorm(cosVecA) \/ ZeroNorm(cosVecB) THEN cosReturned = Zero
        ELSE cosReturned = [dot |-> SumOfProducts(cosVecA, cosVecB),
                            normA |-> SumOfProducts(cosVecA, cosVecA),
                            normB |-> SumOfProducts(cosVecB, cosVecB)]
\* A call with a zero vector and a non-zero vector of the same length.
C16_Witness ==
    /\ cosCalled
    /\ cosVecA = Array(<<0, 0>>)
    /\ cosVecB = Array(<<3, 4>>)
    /\ cosReturned = Zero
(***************************************************************************)
(* Claims about the provider, checked under Spec.                          *)
(***************************************************************************)
\* C17: an unsupported provider is a fatal error of the construction of the
\* EmbeddingService: with such a provider no message is processed, no
\* admission of the throttle is taken, and no failure of a message is recorded.
C17_UnsupportedIsFatal ==
    settings.provider \notin {"ollama", "gemini"} =>
        /\ count = 0
        /\ granted = <<>>
        /\ outcome = <<>>

\* v is an embedding vector.
IsVector(v) == v.type = "array"
\* C18: a provider call either fails or yields a vector: getEmbedding never
\* completes without a vector, stores no missing vector in the cache, and
\* attaches none to a message (a message whose call failed carries null).
C18_VectorOrFailure ==
    /\ pc = "store" => IsVector(embedding)
    /\ \A k \in 1..Len(cache) : IsVector(cache[k].value)
    /\ \A k \in 1..Len(messagesWithEmbeddings) :
          \/ messagesWithEmbeddings[k].embedding = Null
          \/ IsVector(messagesWithEmbeddings[k].embedding)
(***************************************************************************)
(* Claims about handleCollation, checked under SpecCollate.                *)
(***************************************************************************)
\* A status that ends the stream of a run.
Terminal(status) == status.type \in {"complete", "error"}
\* C19: every run ends its stream of statuses with one of type 'complete'
\* or 'error', on every path, and sends no status after that one.
C19_TerminalEvent ==
    /\ \A k \in 1..(Len(hEvents) - 1) : ~Terminal(hEvents[k])
    /\ hPc \in {"resolved", "rejected"} =>
          Len(hEvents) > 0 /\ Terminal(hEvents[Len(hEvents)])
(***************************************************************************)
(* Claims about the runs, checked under SpecRuns.                          *)
(***************************************************************************)
\* Run r has constructed its collator.
Started(r) == rRuns[r].pc # "ready"
\* The contents of the cache and the timestamps of the rate limiter of run r.
CacheOf(r) == rCaches[rRuns[r].cache]
WindowOf(r) == rLimiters[rRuns[r].rateLimiter]

\* C20: every run constructs its own EmbeddingCache and RateLimiter, and a
\* step of one run leaves the cache contents and the timestamps of every
\* other run unchanged, also when the runs overlap.
C20_RunsIsolated ==
    [][\A r, q \in Runs :
          r # q /\ Started(q) =>
             /\ Started(r) =>
                   /\ rRuns[r].cache # rRuns[q].cache
                   /\ rRuns[r].rateLimiter # rRuns[q].rateLimiter
             /\ rActor' = r =>
                   /\ rRuns'[q] = rRuns[q]
                   /\ CacheOf(q)' = CacheOf(q)
                   /\ WindowOf(q)' = WindowOf(q)]_vars
\* Two runs under way at once, each with entries in its cache and a
\* timestamp in its window, and with different cache contents.
C20_Witness ==
    /\ \A r \in Runs : rRuns[r].pc = "running" /\ CacheOf(r) # <<>> /\ WindowOf(r) # <<>>
    /\ CacheOf("first") # CacheOf("second")
    /\ rActor = "second"

(***************************************************************************)
(* Claims about getEmbedding, checked under Spec.                          *)
(***************************************************************************)
\* The step ends a getEmbedding call that fetched its vector from the provider.
FetchedStep ==
    /\ Len(outcome') = Len(outcome) + 1
    /\ outcome'[Len(outcome')].kind = "fetched"

\* C21: on a miss getEmbedding is granted its admission, then calls the
\* provider, then stores the result, then returns it: a provider call is
\* made only right after an admission granted to the same request, the store
\* is made only after the provider call of the same request, the vector
\* returned is the one stored, and the provider calls never outnumber the
\* admissions granted.
C21_MissOrder ==
    [][/\ Len(providerCalls) <= Len(granted)
       /\ pc' = "provider" => pc \in {"throttle", "waiting"} /\ Len(granted') = Len(granted) + 1
       /\ providerCalls' # providerCalls =>
             /\ pc = "provider"
             /\ Len(providerCalls) = Len(request.calls)
             /\ Len(granted) > Len(providerCalls)
       /\ cache' # cache =>
             /\ Len(providerCalls) = Len(request.calls) + 1
             /\ FetchedStep
       /\ FetchedStep =>
             /\ Len(providerCalls) = Len(request.calls) + 1
             /\ MapGet(cache', getKey(request.text)) = outcome'[Len(outcome')].value]_vars
\* A batch that fetched two vectors, each after an admission of its own.
C21_Witness ==
    /\ Len(providerCalls) = 2
    /\ Len(granted) = 2
    /\ \E m, n \in 1..Len(outcome) :
          m < n /\ outcome[m].kind = "fetched" /\ outcome[n].kind = "fetched"

(***************************************************************************)
(* Claims about throttle(), checked under SpecThrottleFair.                *)
(***************************************************************************)
\* The step suspends caller c again at the end of a wait.
SuspendedAgain(c) ==
    /\ callers[c].pc = "waiting"
    /\ callers'[c].pc = "waiting"
    /\ callers'[c].suspended = callers[c].suspended + 1

\* C22: every call of throttle() is eventually granted, whatever the
\* callers waiting at the same time; and a caller is suspended again at the
\* end of a wait only when another call was admitted since it last
\* evaluated, so that a single sequential caller is admitted at once or
\* after exactly one suspension.
C22_EventuallyGranted ==
    /\ \A c \in Callers : (callers[c].pc = "waiting") ~> (callers[c].pc = "ready")
    /\ [][\A c \in Callers : SuspendedAgain(c) => Len(granted) > tSeen[c]]_vars
\* A caller admitted after two suspensions, and one admitted after one.
C22_Witness ==
    \E c1, c2 \in Callers :
        /\ callers[c1].pc = "ready" /\ callers[c1].suspended = 2
        /\ callers[c2].pc = "ready" /\ callers[c2].suspended = 1
        /\ Len(granted) = MaxCalls

(***************************************************************************)
(* Claims about one evaluation of throttle(), checked under SpecThrottle.  *)
(***************************************************************************)
\* The step is an evaluation of throttle() by some caller.
EvalStep == callers' # callers \/ granted' # granted
\* The step leaves kept as the timestamps that count, and grants the
\* admission, recording now, exactly when fewer than maxRequests count.
Decided(kept) ==
    IF Len(kept) < maxRequests
    THEN requestTimestamps' = Append(kept, now) /\ granted' = Append(granted, now)
    ELSE requestTimestamps' = kept /\ granted' = granted

C24_EvictOnlyForNew ==
    [][SetStep =>
         IF MapHas(cache, getKey(lastOp'.text))
         THEN MapKeys(cache') = MapKeys(cache)
         ELSE MapKeys(cache) \ MapKeys(cache') # {} => Len(cache) = maxSize]_vars

(***************************************************************************)
(* Claims about sets in flight at once, checked under SpecSets.            *)
(***************************************************************************)
\* C25: with several calls of set on the same cache in flight at once,
\* interleaved at the await between the capacity check and the insertion,
\* the cache never holds more than maxSize entries.
C25_BoundUnderInterleaving == Cardinality(MapKeys(cache)) <= maxSize

\* The step is the cache lookup of a getEmbedding call.
LookupStep == pc = "lookup" /\ count < Len(messages) /\ (pc' # pc \/ count' # count)

\* C26: messages of one batch with the same body cause at most one provider
\* call for that body while its entry stays in the cache: a vector fetched
\* is stored under its text; every entry of the cache is the vector fetched
\* for a message of the batch with that text; and a message whose text has
\* an entry gets that vector, with no admission and no provider call,
\* whatever its id.
C26_SameTextOneCall ==
    [][/\ \A k \in 1..Len(cache) :
             \E m \in 1..Len(outcome) :
                 /\ outcome[m].kind = "fetched"
                 /\ getKey(messages[m].body) = cache[k].key
                 /\ outcome[m].value = cache[k].value
       /\ FetchedStep =>
             MapGet(cache', getKey(Message.body)) = outcome'[Len(outcome')].value
       /\ LookupStep /\ IsVector(MapGet(cache, getKey(Message.body))) =>
             /\ Len(outcome') = Len(outcome) + 1
             /\ outcome'[Len(outcome')].kind = "hit"
             /\ messagesWithEmbeddings'[count + 1].embedding = MapGet(cache, getKey(Message.body))
             /\ granted' = granted
             /\ requestTimestamps' = requestTimestamps
             /\ providerCalls' = providerCalls]_vars
\* Three messages with the same body and different ids: one provider call,
\* one admission, and the same vector for the three.
C26_Witness ==
    /\ Len(messages) = 3
    /\ Len(messagesWithEmbeddings) = 3
    /\ messages[1].body = messages[2].body /\ messages[2].body = messages[3].body
    /\ outcome[1].kind = "fetched" /\ outcome[2].kind = "hit" /\ outcome[3].kind = "hit"
    /\ IsVector(messagesWithEmbeddings[1].embedding)
    /\ messagesWithEmbeddings[2].embedding = messagesWithEmbeddings[1].embedding
    /\ messagesWithEmbeddings[3].embedding = messagesWithEmbeddings[1].embedding
    /\ Len(providerCalls) = 1
    /\ Len(granted) = 1

\* The step ends a getEmbedding call that threw.
ThrewStep ==
    /\ Len(outcome') = Len(outcome) + 1
    /\ outcome'[Len(outcome')].kind = "threw"
\* Every getEmbedding call made so far for the text of the message at hand threw.
OnlyFailedSoFar ==
    /\ \E m \in 1..count : messages[m].body = Message.body
    /\ \A m \in 1..count : messages[m].body = Message.body => outcome[m].kind = "threw"

\* C27: a getEmbedding call that fails at the provider leaves the cache as
\* it was, no entry added and none evicted, and leaves the admission it took
\* recorded; a later call for the same text therefore misses again, and
\* gets to the provider only through a new admission.
C27_FailureLeavesCache ==
    [][/\ cache' # cache => FetchedStep
       /\ ThrewStep =>
             /\ cache' = cache
             /\ requestTimestamps' = requestTimestamps
             /\ requestTimestamps # <<>>
             /\ requestTimestamps[Len(requestTimestamps)] = granted[Len(granted)]
       /\ LookupStep /\ OnlyFailedSoFar =>
             /\ pc' = "throttle"
             /\ ~request'.found
       /\ pc' = "provider" /\ pc # "provider" => Len(granted') = Len(granted) + 1]_vars
\* Two messages with the same body whose calls both failed at the provider:
\* two admissions, two provider calls, an empty cache.
C27_Witness ==
    /\ Len(outcome) = 2
    /\ messages[1].body = messages[2].body
    /\ outcome[1].kind = "threw" /\ outcome[2].kind = "threw"
    /\ Len(providerCalls) = 2
    /\ Len(granted) = 2
    /\ cache = <<>>

(***************************************************************************)
(* Claims about the output of deduplicate, checked under SpecDedup.        *)
(***************************************************************************)
\* Message k carries an embedding with at least one component.
NonEmpty(k) == ~NoEmbedding(dMessages[k]) /\ Len(dMessages[k].embedding.items) > 0
\* The pairs compared during the call.
ComparedPairs == {dCompared[n] : n \in 1..Len(dCompared)}
\* The messages of the input that the call removed.
RemovedIds == (1..Len(dMessages)) \ KeptIds

\* C28: no two messages of the output that both carry a non-empty embedding
\* are more similar than the threshold: each such pair was compared during
\* the call and found at or below the threshold.
C28_SurvivorsDissimilar ==
    dPc = "done" =>
        \A a, b \in KeptIds :
            a < b /\ NonEmpty(a) /\ NonEmpty(b) =>
                <<a, b>> \in ComparedPairs /\ ~Similar(a, b)
\* A call that removed a message and returned two messages with non-empty
\* embeddings, compared with each other.
C28_Witness ==
    /\ dPc = "done"
    /\ RemovedIds # {}
    /\ \E a, b \in KeptIds : a < b /\ NonEmpty(a) /\ NonEmpty(b) /\ <<a, b>> \in ComparedPairs

\* Message p was compared with message d, is more similar to it than the
\* threshold, and has a body at least as long.
Covers(p, d) ==
    /\ Similar(d, p)
    /\ Len(dMessages[p].body) >= Len(dMessages[d].body)
    /\ <<d, p>> \in ComparedPairs \/ <<p, d>> \in ComparedPairs
RECURSIVE Linked(_, _)
\* The messages linked to a message of S by a chain of at most n covering pairs.
Linked(S, n) ==
    IF n = 0 THEN S
    ELSE Linked(S \cup {d \in 1..Len(dMessages) : \E p \in S : Covers(p, d)}, n - 1)

\* C29: every message removed by deduplicate is more similar than the
\* threshold to some message of the output whose body is at least as long.
C29_CoveredBySurvivor ==
    dPc = "done" =>
        \A d \in RemovedIds :
            \E s \in KeptIds :
                Similar(d, s) /\ Len(dMessages[s].body) >= Len(dMessages[d].body)
\* C29, amended: every message removed by deduplicate was compared with a
\* message more similar to it than the threshold and with a body at least
\* as long, which is in the output or was itself removed later in the same
\* way: a chain of such pairs links each removed message to a message of
\* the output.
C29_LinkedToSurvivor ==
    dPc = "done" => RemovedIds \subseteq Linked(KeptIds, Len(dMessages))
\* A call that removed a message covered by no message of the output: its
\* match was removed later.
C29_Witness ==
    /\ dPc = "done"
    /\ threshold = DefaultThreshold
    /\ \E d \in RemovedIds :
          /\ NonEmpty(d)
          /\ \A s \in KeptIds : ~Similar(d, s)
          /\ \E p \in RemovedIds : Covers(p, d)

\* Message k has the longest body of the messages with an embedding, and is
\* the last of them with that length.
LongestEmbedded(k) ==
    /\ ~NoEmbedding(dMessages[k])
    /\ \A m \in 1..Len(dMessages) :
          ~NoEmbedding(dMessages[m]) =>
              \/ Len(dMessages[m].body) < Len(dMessages[k].body)
              \/ Len(dMessages[m].body) = Len(dMessages[k].body) /\ m <= k
\* C30: deduplicate never removes the message with the longest body among
\* those with an embedding (the last of them in input order when several
\* have that length), so the output of a non-empty input is not empty.
C30_LongestKept ==
    dPc = "done" =>
        /\ \A k \in 1..Len(dMessages) : LongestEmbedded(k) => k \in KeptIds
        /\ Len(dMessages) > 0 => Len(dUnique) > 0
\* A call that returned only the longest message with an embedding, which
\* was not the first of the input.
C30_Witness ==
    /\ dPc = "done"
    /\ Len(dMessages) = 3
    /\ Len(dUnique) = 1
    /\ LongestEmbedded(dUnique[1].id)
    /\ dUnique[1].id = 2

(***************************************************************************)
(* SpecReport: one run of collate followed message by message, from the    *)
(* messages found to the list handed to generateHtml                       *)
(* (embeddings.js, collate lines 146-187).                                 *)
(***************************************************************************)
\* The length a trimmed body has to exceed to be embedded (line 164).
MinBody == 50

\* A string value, as its characters.
Str(chars) == [type |-> "string", chars |-> chars]
\* The characters of the bodies: white space, and anything else.
Space == 0
Letter == 1
Repeat(c, n) == [k \in 1..n |-> c]

RECURSIVE TrimStart(_)
TrimStart(s) == IF s # <<>> /\ Head(s) = Space THEN TrimStart(Tail(s)) ELSE s
RECURSIVE TrimEnd(_)
TrimEnd(s) == IF s # <<>> /\ s[Len(s)] = Space THEN TrimEnd(SubSeq(s, 1, Len(s) - 1)) ELSE s
\* String.prototype.trim: the white space at both ends removed.
trim(s) == TrimEnd(TrimStart(s))

\* What getPlainTextBody gives: nothing, a body whose trimmed length is
\* MinBody, one of MinBody + 1 characters, and a longer one that is
\* MinBody + 1 characters long once trimmed.
BodyParts ==
    {Null,
     Str(<<Space>> \o Repeat(Letter, MinBody) \o <<Space>>),
     Str(Repeat(Letter, MinBody + 1)),
     Str(<<Space>> \o Repeat(Letter, MinBody + 1))}
\* The dates of the messages, as instants.
Dates == {1, 2}
\* What reading one message gives: getFull or getPlainTextBody throws, or
\* the message has a date and a body part.
Reads ==
    {[ok |-> FALSE, date |-> 1, bodyPart |-> Null]}
    \cup [ok : {TRUE}, date : Dates, bodyPart : BodyParts]
\* What fetchEmailsBySenders returns: up to MaxFound messages, the k-th with id k.
FoundMessages ==
    UNION {{[k \in 1..n |-> [id |-> k, read |-> r[k]]] : r \in [1..n -> Reads]} :
               n \in 0..MaxFound}
\* What getEmbedding gives for a message: a failure (null), or one of two
\* vectors that are not similar to each other.
PipeEmbeddings == {Null, Array(<<10, 0>>), Array(<<10, 6>>)}

\* extractMessageContent (lines 246-262): the content, or null on error.
extractMessageContent(message) ==
    IF message.read.ok
    THEN [id |-> message.id,
          date |-> message.read.date,
          body |-> IF Truthy(message.read.bodyPart) THEN message.read.bodyPart.chars ELSE <<>>]
    ELSE Null

\* A filter that keeps the bodies whose trimmed length is MinBody or more.
NonTrivialAtLeast(mc) == Len(trim(mc.body)) >= MinBody
\* mc => mc.body.trim().length > 50 (line 164)
NonTrivial(mc) == Len(trim(mc.body)) > MinBody

\* The argument of generateEmbeddingsForMessages (line 164).
ToEmbed == SelectSeq(messageContents, NonTrivial)

RECURSIVE SortByDate(_)
\* uniqueMessages.sort((a, b) => new Date(a.date) - new Date(b.date)), line 174:
\* a stable sort by date.
SortByDate(s) ==
    IF s = <<>> THEN <<>>
    ELSE LET m == s[Len(s)]
             front == SortByDate(SubSeq(s, 1, Len(s) - 1))
             before == SelectSeq(front, LAMBDA x : x.date <= m.date)
             after == SelectSeq(front, LAMBDA x : x.date > m.date)
         IN before \o <<m>> \o after

PipeInit ==
    /\ cMessages \in FoundMessages
    /\ cPc = "fetched"
    /\ cI = 0
    /\ messageContents = <<>>
    /\ cWithEmbeddings = <<>>
    /\ cUnique = <<>>
    /\ cReport = <<>>

\* if (messages.length === 0) return "<h1>No Messages Found</h1>..." (lines 151-154)
PipeNone ==
    /\ cPc = "fetched"
    /\ cMessages = <<>>
    /\ cPc' = "returned"
    /\ UNCHANGED <<cMessages, cI, messageContents, cWithEmbeddings, cUnique, cReport>>

\* One turn of the loop of extractAllMessageContents (lines 228-237): the
\* content is pushed unless it is null.
PipeExtract ==
    /\ cPc = "fetched"
    /\ cI < Len(cMessages)
    /\ LET content == extractMessageContent(cMessages[cI + 1])
       IN messageContents' =
              IF content # Null THEN Append(messageContents, content) ELSE messageContents
    /\ IF cI + 1 = Len(cMessages)
       THEN cPc' = "embed" /\ cI' = 0
       ELSE cPc' = cPc /\ cI' = cI + 1
    /\ UNCHANGED <<cMessages, cWithEmbeddings, cUnique, cReport>>

\* One turn of the loop of generateEmbeddingsForMessages over the filtered
\* contents (line 163-166): the message is pushed with what getEmbedding gave.
PipeEmbed ==
    /\ cPc = "embed"
    /\ cI < Len(ToEmbed)
    /\ \E e \in PipeEmbeddings :
           cWithEmbeddings' =
               Append(cWithEmbeddings,
                      [id |-> ToEmbed[cI + 1].id, date |-> ToEmbed[cI + 1].date,
                       body |-> ToEmbed[cI + 1].body, embedding |-> e])
    /\ cI' = cI + 1
    /\ UNCHANGED <<cMessages, cPc, messageContents, cUnique, cReport>>

\* const uniqueMessages = this.deduplicator.deduplicate(messagesWithEmbeddings) (line 170)
PipeDeduplicate ==
    /\ cPc = "embed"
    /\ cI = Len(ToEmbed)
    /\ cUnique' = deduplicate(cWithEmbeddings, threshold)
    /\ cPc' = "sort"
    /\ UNCHANGED <<cMessages, cI, messageContents, cWithEmbeddings, cReport>>

\* The sort, in place, and generateHtml(sortedMessages, senders) (lines 174-175).
PipeSort ==
    /\ cPc = "sort"
    /\ cUnique' = SortByDate(cUnique)
    /\ cReport' = SortByDate(cUnique)
    /\ cPc' = "returned"
    /\ UNCHANGED <<cMessages, cI, messageContents, cWithEmbeddings>>

otherThanPipe ==
    <<cacheVars, throttleVars, batchVars, dedupVars, cosineVars, collateVars, runVars,
      restVars, lRequests>>

InitReport ==
    /\ PipeInit
    /\ CacheIdle /\ ThrottleIdle /\ BatchIdle /\ DedupIdle /\ CosineIdle /\ CollateIdle
    /\ RunsIdle /\ RestIdle /\ ListenerIdle

ReportNone == PipeNone /\ UNCHANGED otherThanPipe
ReportExtract == PipeExtract /\ UNCHANGED otherThanPipe
ReportEmbed == PipeEmbed /\ UNCHANGED otherThanPipe
ReportDeduplicate == PipeDeduplicate /\ UNCHANGED otherThanPipe
ReportSort == PipeSort /\ UNCHANGED otherThanPipe

NextReport == ReportNone \/ ReportExtract \/ ReportEmbed \/ ReportDeduplicate \/ ReportSort

SpecReport == InitReport /\ [][NextReport]_vars

\* The ids of the messages of a list.
Ids(s) == {s[x].id : x \in DOMAIN s}
\* Message k was extracted and its trimmed body is longer than MinBody.
LongBody(k) ==
    /\ cMessages[k].read.ok
    /\ cMessages[k].read.bodyPart # Null
    /\ Len(trim(cMessages[k].read.bodyPart.chars)) > MinBody
\* The ids of the messages deduplicate marks as duplicates.
MarkedIds ==
    LET marks == Outer(cWithEmbeddings, threshold, [x \in DOMAIN cWithEmbeddings |-> FALSE], 1)
    IN {cWithEmbeddings[x].id : x \in {y \in DOMAIN cWithEmbeddings : marks[y]}}

\* C31: a message is in the sorted list handed to generateHtml exactly when
\* its extraction succeeded, its trimmed body is longer than 50 characters and
\* deduplicate did not mark it; a message whose trimmed body has 50 characters
\* or fewer is never embedded, and reaches neither deduplicate nor the report.
C31_ReportMembership ==
    /\ \A k \in DOMAIN cMessages :
           ~LongBody(k) => k \notin Ids(cWithEmbeddings) \cup Ids(cUnique) \cup Ids(cReport)
    /\ (cPc = "returned" /\ cMessages # <<>>) =>
           /\ \A k \in DOMAIN cMessages :
                  k \in Ids(cReport) <=> (LongBody(k) /\ k \notin MarkedIds)
           /\ Cardinality(Ids(cReport)) = Len(cReport)
           /\ \A x, y \in DOMAIN cReport : x < y => cReport[x].date <= cReport[y].date

\* A finished run with a message in the report, one removed as a duplicate,
\* and one extracted whose trimmed body has exactly 50 characters.
C31_Witness ==
    /\ cPc = "returned"
    /\ \E k1, k2, k3 \in DOMAIN cMessages :
           /\ k1 \in Ids(cReport)
           /\ LongBody(k2) /\ k2 \in MarkedIds
           /\ cMessages[k3].read.ok /\ cMessages[k3].read.bodyPart # Null
           /\ Len(trim(cMessages[k3].read.bodyPart.chars)) = MinBody
           /\ Len(cMessages[k3].read.bodyPart.chars) > MinBody

(***************************************************************************)
(* SpecListener: the requests delivered to the onMessage listener of the   *)
(* background script (background.js lines 88-127), the operations they     *)
(* start, and the responses sent.                                          *)
(***************************************************************************)
NumRequests == 2        \* requests delivered to the listener

\* request.action: the four actions the switch knows, and one it does not.
KnownActions == {"collate", "getSettings", "saveSettings", "getAllSenders"}
RequestActions == KnownActions \cup {"ping"}

\* The states of a promise.
Pending == [state |-> "pending"]
Fulfilled(value) == [state |-> "fulfilled", value |-> value]
Rejected(reason) == [state |-> "rejected", reason |-> reason]
\* An Error object.
ErrorOf(name, message) == [type |-> "error", name |-> name, message |-> message]

\* {}
EmptyObject == [k \in {} |-> Undefined]
\* { ...a, ...b }
Spread(a, b) == [k \in DOMAIN a \cup DOMAIN b |-> IF k \in DOMAIN b THEN b[k] ELSE a[k]]

\* The defaults of getSettings (storage.js lines 20-30).
defaults ==
    [provider |-> "ollama",
     ollama |-> [endpoint |-> "http://localhost:11434", model |-> "nomic-embed-text"],
     gemini |-> [apiKey |-> ""],
     similarityThreshold |-> DefaultThreshold]

\* What a call of the platform does: it throws (its promise rejects), or it
\* returns a result.
Threw == [threw |-> TRUE, result |-> Undefined]
Gave(result) == [threw |-> FALSE, result |-> result]
\* result[SETTINGS_KEY] after messenger.storage.local.get: nothing stored, or
\* settings saved earlier, partial or complete.
StoredSettings ==
    {Undefined,
     [provider |-> "gemini"],
     Spread(defaults, [provider |-> "gemini", similarityThreshold |-> [num |-> 9, den |-> 10]])}
\* What the platform does for the operation of an action.
PlatformCalls(action) ==
    IF action = "getSettings" THEN {Threw} \cup {Gave(s) : s \in StoredSettings}
    ELSE {Threw, Gave(Undefined)}

\* StorageManager.getSettings (storage.js lines 16-36), given what
\* messenger.storage.local.get did. The catch block returns defaults, a const
\* declared in the try block and not in scope there: evaluating it throws a
\* ReferenceError, and the promise of the async function rejects.
StorageManager_getSettings(get) ==
    IF get.threw
    THEN Rejected(ErrorOf("ReferenceError", "defaults is not defined"))
    ELSE Fulfilled(Spread(defaults, IF Truthy(get.result) THEN get.result ELSE EmptyObject))

\* StorageManager.saveSettings (storage.js lines 43-50), given what
\* messenger.storage.local.set did: the error is logged and thrown again.
StorageManager_saveSettings(set) ==
    IF set.threw THEN Rejected(ErrorOf("Error", "storage")) ELSE Fulfilled(Undefined)

\* handleCollation (background.js lines 133-157), given whether a step of it
\* threw: the error is reported and thrown again.
handleCollation(run) ==
    IF run.threw THEN Rejected(ErrorOf("Error", "collation"))
    ELSE Fulfilled(Str("Collation complete."))

\* getAllSenders (background.js lines 197-207), given whether
\* messenger.accounts.list threw; the senders are left out.
getAllSenders(list) ==
    IF list.threw THEN Rejected(ErrorOf("Error", "accounts")) ELSE Fulfilled(Array(<<>>))

\* The promise of the operation an action starts, once settled.
Operation(action, call) ==
    CASE action = "collate" -> handleCollation(call)
      [] action = "getSettings" -> StorageManager_getSettings(call)
      [] action = "saveSettings" -> StorageManager_saveSettings(call)
      [] action = "getAllSenders" -> getAllSenders(call)

\* A call of sendResponse: what was sent, and whether the listener was still
\* running.
Success(data, sync) == [status |-> "success", data |-> data, sync |-> sync]
Failure(message, sync) == [status |-> "error", message |-> message, sync |-> sync]

\* A default case that returns false without answering.
onMessageSilentDefault(action) ==
    IF action \in KnownActions
    THEN [action |-> action, promise |-> Pending, call |-> Undefined, handled |-> FALSE,
          responses |-> <<>>, returned |-> TRUE]
    ELSE [action |-> action, promise |-> [state |-> "none"], call |-> Undefined,
          handled |-> TRUE, responses |-> <<>>, returned |-> FALSE]
\* The listener (lines 88-127), run on one request: what it leaves behind when
\* it returns. A known action starts its operation, registers the two
\* callbacks and returns true; any other is answered at once and returns false.
onMessage(action) ==
    IF action \in KnownActions
    THEN [action |-> action, promise |-> Pending, call |-> Undefined, handled |-> FALSE,
          responses |-> <<>>, returned |-> TRUE]
    ELSE [action |-> action, promise |-> [state |-> "none"], call |-> Undefined,
          handled |-> TRUE, responses |-> <<Failure("Unknown action", TRUE)>>,
          returned |-> FALSE]

\* A rejection handler that sends nothing.
OnRejectedSilent(q) == [q EXCEPT !.handled = TRUE]
\* .catch(error => sendResponse({ status: 'error', message: error.message }))
OnRejected(q) ==
    [q EXCEPT !.handled = TRUE,
              !.responses = Append(@, Failure(q.promise.reason.message, FALSE))]
\* .then(result => sendResponse({ status: 'success', data: result }))
OnFulfilled(q) ==
    [q EXCEPT !.handled = TRUE,
              !.responses = Append(@, Success(q.promise.value, FALSE))]

RequestIds == 1..NumRequests

\* The runtime delivers a request and the listener runs on it.
Receive(action) ==
    /\ Len(lRequests) < NumRequests
    /\ lRequests' = Append(lRequests, onMessage(action))

\* The operation of request r settles.
Settle(r) ==
    /\ r \in DOMAIN lRequests
    /\ lRequests[r].promise = Pending
    /\ \E call \in PlatformCalls(lRequests[r].action) :
           lRequests' = [lRequests EXCEPT ![r].call = call,
                                          ![r].promise = Operation(lRequests[r].action, call)]

\* The callback registered with then runs.
Then(r) ==
    /\ r \in DOMAIN lRequests
    /\ ~lRequests[r].handled
    /\ lRequests[r].promise.state = "fulfilled"
    /\ lRequests' = [lRequests EXCEPT ![r] = OnFulfilled(@)]

\* The callback registered with catch runs.
Catch(r) ==
    /\ r \in DOMAIN lRequests
    /\ ~lRequests[r].handled
    /\ lRequests[r].promise.state = "rejected"
    /\ lRequests' = [lRequests EXCEPT ![r] = OnRejected(@)]

otherThanListener ==
    <<cacheVars, throttleVars, batchVars, dedupVars, cosineVars, collateVars, runVars,
      restVars, pipeVars>>

InitListener ==
    /\ lRequests = <<>>
    /\ CacheIdle /\ ThrottleIdle /\ BatchIdle /\ DedupIdle /\ CosineIdle /\ CollateIdle
    /\ RunsIdle /\ RestIdle /\ PipeIdle

ListenerReceive == (\E action \in RequestActions : Receive(action)) /\ UNCHANGED otherThanListener
ListenerSettle(r) == Settle(r) /\ UNCHANGED otherThanListener
ListenerThen(r) == Then(r) /\ UNCHANGED otherThanListener
ListenerCatch(r) == Catch(r) /\ UNCHANGED otherThanListener
ListenerSettles == \E r \in RequestIds : ListenerSettle(r)
ListenerThens == \E r \in RequestIds : ListenerThen(r)
ListenerCatches == \E r \in RequestIds : ListenerCatch(r)

NextListener == ListenerReceive \/ ListenerSettles \/ ListenerThens \/ ListenerCatches

\* An operation that was started settles, and a callback that is due runs.
FairListener ==
    \A r \in RequestIds :
        WF_vars(ListenerSettle(r)) /\ WF_vars(ListenerThen(r)) /\ WF_vars(ListenerCatch(r))

SpecListener == InitListener /\ [][NextListener]_vars /\ FairListener

\* Request q has at most one response, and the one it has fits its action and
\* the way its operation ended.
AnsweredRight(q) ==
    /\ Len(q.responses) <= 1
    /\ q.action \notin KnownActions =>
           /\ Len(q.responses) = 1
           /\ q.responses[1].status = "error" /\ q.responses[1].sync
           /\ ~q.returned
    /\ q.action \in KnownActions =>
           /\ q.returned
           /\ q.handled <=> Len(q.responses) = 1
           /\ q.responses # <<>> =>
                  /\ ~q.responses[1].sync
                  /\ q.promise.state \in {"fulfilled", "rejected"}
                  /\ q.responses[1].status = "success" <=> q.promise.state = "fulfilled"
                  /\ q.responses[1].status = "error" <=> q.promise.state = "rejected"
                  /\ q.promise.state = "fulfilled" <=> ~q.call.threw

\* C32: every request is answered exactly once: for the four known actions
\* one call of sendResponse, after the listener returned true, with status
\* 'success' when the operation completed and 'error' when it failed; for any
\* other action one call with status 'error' before the listener returns.
C32_AnsweredOnce ==
    /\ [](\A r \in DOMAIN lRequests : AnsweredRight(lRequests[r]))
    /\ \A r \in RequestIds :
           (r \in DOMAIN lRequests) ~> (r \in DOMAIN lRequests /\ Len(lRequests[r].responses) = 1)

\* Two requests answered, one with success after its operation completed, one
\* with an error after its operation failed.
C32_Witness ==
    /\ Len(lRequests) = NumRequests
    /\ \E r1, r2 \in DOMAIN lRequests :
           /\ lRequests[r1].action \in KnownActions /\ lRequests[r1].handled
           /\ lRequests[r1].responses[1].status = "success"
           /\ lRequests[r2].action \in KnownActions /\ lRequests[r2].handled
           /\ lRequests[r2].responses[1].status = "error"

\* C33: StorageManager.getSettings never fails: when reading local storage
\* throws, its promise is fulfilled with the default settings and not
\* rejected, and a 'getSettings' request is answered with status 'success'.
C33_GetSettingsNeverFails ==
    \A r \in DOMAIN lRequests :
        lRequests[r].action = "getSettings" =>
            /\ lRequests[r].promise.state # "rejected"
            /\ (lRequests[r].promise.state = "fulfilled" /\ lRequests[r].call.threw) =>
                   lRequests[r].promise.value = defaults
            /\ lRequests[r].responses # <<>> => lRequests[r].responses[1].status = "success"
====
